---- MODULE Spec2Model ----
(***************************************************************************)
(* Model of migraptor's migration pipeline (runMigration and the migrators *)
(* of internal/migration).  One run of the command is a sequential         *)
(* program; every step of the model is one call to a collaborator (the     *)
(* GitLab API or the Docker engine) together with the control flow that    *)
(* follows it.  The collaborators' answers are the nondeterministic input. *)
(* Strings are sequences of one-character strings.                         *)
(***************************************************************************)
EXTENDS Integers, Sequences, FiniteSets, Bags, TLC

\* ------------------------------------------------------------------ bounds
MaxRepos == 2         \* registry repositories a project may hold
MaxFaults == 1        \* failing collaborator calls injected in one run
MaxListLen == 2       \* entries of a filter list given to a function on its own
MaxLen == 2           \* characters of a root path given to a function on its own

\* ------------------------------------------------------- program constants
MaxRetries == 30      \* maxRetries of CheckIfRemainingImages
StatusCreated == 201  \* the only status TransferGroup accepts
StatusOK == 200
ExitGeneric == 1
ExitFailure == 99
ExitGroupNotFound == 321

\* --------------------------------------------------------------- the world
\* the projects the platform may list under the source group
ProjIds == {1, 2}
PathNames == <<"a", "b", "c", "d">>
Path(p) == <<PathNames[p]>>

RegistryHost == <<"r">>
OldGroupName == <<"e", "/", "t">>      \* cfg.OldGroupName, the source group
OldGroupFullPath == <<"e", "/", "t">>  \* groupFound.FullPath
OldGroupPath == <<"t">>                \* groupFound.Path
NewGroupName == <<"/", "n">>           \* cfg.NewGroupName

\* tags the platform holds for the i-th repository of project p: the repositories of a
\* project hold v1 and v2 or v2 alone in turn, the first of project 1 holds both
TagsOf(p, i) ==
    IF (p + i) % 2 = 0 THEN << <<"v", "1">>, <<"v", "2">> >> ELSE << <<"v", "2">> >>

RepoId(p, i) == 10 * p + i

\* name of the i-th repository below the project's path; the first has none
RepoNames == << <<>>, <<"x">>, <<"y">>, <<"z">> >>

\* tag.Location of tag t in the i-th repository of project p
Location(p, i, t) ==
    RegistryHost \o <<"/">> \o OldGroupFullPath \o <<"/">> \o Path(p)
        \o (IF i = 1 THEN <<>> ELSE <<"/">> \o RepoNames[i]) \o <<":">> \o t

\* ------------------------------------------------------- string functions
Contains(list, x) == \E k \in 1..Len(list) : list[k] = x

\* strings.Index: first position where sub occurs in s, 0 when it does not
Index(s, sub) ==
    LET hits == {k \in 1..(Len(s) - Len(sub) + 1) :
                    SubSeq(s, k, k + Len(sub) - 1) = sub}
    IN IF hits = {} THEN 0 ELSE CHOOSE k \in hits : \A j \in hits : k <= j

\* strings.Replace(s, old, new, 1)
ReplaceFirst(s, old, new) ==
    LET k == Index(s, old)
    IN IF k = 0 THEN s
       ELSE SubSeq(s, 1, k - 1) \o new \o SubSeq(s, k + Len(old), Len(s))

\* strings.Trim(s, cutset) for a one-character cutset
RECURSIVE TrimLeft(_, _)
TrimLeft(s, c) == IF s # <<>> /\ Head(s) = c THEN TrimLeft(Tail(s), c) ELSE s
RECURSIVE TrimRight(_, _)
TrimRight(s, c) ==
    IF s # <<>> /\ s[Len(s)] = c THEN TrimRight(SubSeq(s, 1, Len(s) - 1), c) ELSE s
Trim(s, c) == TrimRight(TrimLeft(s, c), c)

\* strings.TrimPrefix
TrimPrefix(s, prefix) ==
    IF Len(s) >= Len(prefix) /\ SubSeq(s, 1, Len(prefix)) = prefix
    THEN SubSeq(s, Len(prefix) + 1, Len(s)) ELSE s

\* the last element of strings.Split(s, "/")
RECURSIVE LastPart(_)
LastPart(s) ==
    LET k == Index(s, <<"/">>)
    IN IF k = 0 THEN s ELSE LastPart(SubSeq(s, k + 1, Len(s)))


\* ---------------------------------------------------------------- configuration
NewGroupPath == TrimPrefix(NewGroupName, <<"/">>)
SimplePath == LastPart(OldGroupPath)
NewGroupFullPath == NewGroupPath \o <<"/">> \o SimplePath

ProjectsLists == {<<>>, <<Path(1)>>}
TagsLists == {<<>>, << <<"v", "1">> >>}
Configs == [DryRun : BOOLEAN, KeepParent : BOOLEAN,
            ProjectsList : ProjectsLists, TagsList : TagsLists]

ProjectInfo(p, reg, arch) ==
    [ID |-> p, Path |-> Path(p), ContainerRegistryEnabled |-> reg, Archived |-> arch]
NoProject(p) == ProjectInfo(p, FALSE, FALSE)

\* a call issued to a collaborator, with its answer
Call(op, p, repo, src, ref, dst, status) ==
    [op |-> op, proj |-> p, repo |-> repo, src |-> src, ref |-> ref,
     dst |-> dst, status |-> status]

\* answers of the GitLab API: 0 is a call that returned an error
Statuses == {0, StatusOK, StatusCreated}
\* answers of the Docker engine
DockerAnswers == {0, StatusOK}

VARIABLES
    cfg,            \* the resolved configuration
    groups,         \* full paths of the groups the platform holds; whether the
                    \* destination has the subgroup is settled when it is looked up
    registry,       \* repositories each project holds, -1 while never listed
    pc,             \* position of the run in runMigration
    exitCode,       \* process exit code, -1 while running
    info,           \* ProjectInfo of the discovered projects
    allProjects,    \* keys of the allProjects map
    projectImages,  \* the projectImages map
    newGroup,       \* the group projects are transferred into
    todo,           \* projects the current range loop has not visited
    cur,            \* project of the current iteration
    repositories,   \* BackupImages: the listed repositories
    ri,             \* index of the current repository
    images,         \* tags retained for the current repository
    ii,             \* index of the current image
    allImages,      \* BackupImages: references recorded so far
    retries,        \* CheckIfRemainingImages: retries of the current project
    polls,          \* polls issued for the project that is waited for
    pauses,         \* DeleteRegistries: pauses taken after a delete call
    pollErr,        \* CheckIfRemainingImages: the last poll returned an error
    calls,          \* bag of the mutating calls issued so far
    faults,         \* failing calls injected so far
    input,          \* arguments of the function applied on its own
    output,         \* the values it returned, in order
    selectorModel,  \* clean: the ImageSelectorModel
    inflight,       \* clean: commands of the selector that have not delivered
                    \* their message yet
    selectedImages, \* cleanImages: selectedImages
    response,       \* cleanImages: response
    failedCount     \* cleanImages: failedCount

vars == <<cfg, groups, registry, pc, exitCode, info, allProjects, projectImages,
          newGroup, todo, cur, repositories, ri, images, ii, allImages, retries, polls,
          pauses, pollErr,
          calls, faults, input, output, selectorModel, inflight, selectedImages,
          response, failedCount>>

\* the state of one run of runMigration
pipelineVars == <<cfg, groups, registry, pc, exitCode, info, allProjects,
                  projectImages, newGroup, todo, cur, repositories, ri, images, ii,
                  allImages, retries, polls, pauses, pollErr, calls, faults>>
\* what no step of runMigration changes
functionVars == <<input, output>>
\* the state of the clean command that runMigration does not have
cleanVars == <<selectorModel, inflight, selectedImages, response, failedCount>>
constantVars == <<cfg, functionVars, cleanVars>>
platformVars == <<constantVars, groups, registry>>
discoveryVars == <<info, allProjects>>
backupVars == <<repositories, ri, images, ii, allImages>>

\* no selector is running
NoSelector == [showConfirm |-> FALSE, showQuitConfirm |-> FALSE, deleting |-> FALSE]
\* no deleteSelected command is in flight
NoDelete == [state |-> "none", orphan |-> FALSE, selectedImages |-> <<>>,
             next |-> 0, deletedCount |-> 0, failedCount |-> 0]
NoCommand == [quit |-> FALSE, deleteSelected |-> NoDelete]

\* the clean command is not running
CleanIdle ==
    /\ selectorModel = NoSelector
    /\ inflight = NoCommand
    /\ selectedImages = <<>>
    /\ response = ""
    /\ failedCount = 0

Init ==
    /\ cfg \in Configs
    /\ groups \in SUBSET {OldGroupName, NewGroupPath}
    /\ registry = [p \in ProjIds |-> -1]
    /\ pc = "SearchSource"
    /\ exitCode = -1
    /\ info = [p \in ProjIds |-> NoProject(p)]
    /\ allProjects = {}
    /\ projectImages = [p \in {} |-> <<>>]
    /\ newGroup = "none"
    /\ todo = {}
    /\ cur = 0
    /\ repositories = <<>>
    /\ ri = 0
    /\ images = <<>>
    /\ ii = 0
    /\ allImages = <<>>
    /\ retries = 0
    /\ polls = 0
    /\ pauses = 0
    /\ pollErr = FALSE
    /\ calls = EmptyBag
    /\ faults = 0
    /\ input = <<>>
    /\ output = <<>>
    /\ CleanIdle

\* ------------------------------------------------------------------ helpers
Issue(c) == calls' = calls (+) SetToBag({c})

\* the collaborator may answer a with a call; a failing answer uses the budget
Answers(a, good) ==
    /\ a \in good \/ faults < MaxFaults
    /\ faults' = IF a \in good THEN faults ELSE faults + 1

Exit(code) ==
    /\ pc' = "exit"
    /\ exitCode' = code

\* a SearchGroup that finds whatever it is asked for
SearchGroupFindsAny(name) == TRUE

\* GroupMigrator.SearchGroup: an error when the platform has no such group
SearchGroup(name) == name \in groups

\* a ShouldMigrateProject that looks at the filter list only
ShouldMigrateProjectInFilter(project, filterList, keepParent) ==
    Len(filterList) = 0 \/ Contains(filterList, project.Path)

ShouldMigrateProject(project, filterList, keepParent) ==
    IF Len(filterList) = 0 THEN TRUE
    ELSE IF Contains(filterList, project.Path) THEN TRUE
    ELSE IF ~project.ContainerRegistryEnabled /\ keepParent THEN TRUE
    ELSE FALSE

\* ProjectMigrator.ListProjects: the filter applied to the listed projects
ListFilter(listed, filterList) ==
    {p \in listed : Len(filterList) > 0 => Contains(filterList, Path(p))}

\* a GetImages that ignores the tag filter
GetImagesUnfiltered(tags, tagFilter) == tags

\* GetImages: the tags kept by the tag filter, in listing order
RECURSIVE GetImages(_, _)
GetImages(tags, tagFilter) ==
    IF tags = <<>> THEN <<>>
    ELSE IF Len(tagFilter) > 0 /\ ~Contains(tagFilter, Head(tags))
         THEN GetImages(Tail(tags), tagFilter)
         ELSE <<Head(tags)>> \o GetImages(Tail(tags), tagFilter)

SetImages(p, list) ==
    projectImages' = [q \in DOMAIN projectImages \cup {p} |->
                        IF q = p THEN list ELSE projectImages[q]]


\* -------------------------------------------------------------- discovery
\* runMigration: search for the source group
SearchSourceGroup ==
    /\ pc = "SearchSource"
    /\ IF SearchGroup(OldGroupName)
       THEN pc' = "SearchDest" /\ UNCHANGED exitCode
       ELSE Exit(ExitGroupNotFound)
    /\ UNCHANGED <<platformVars, discoveryVars, backupVars, projectImages, newGroup,
                   todo, cur, retries, polls, pauses, pollErr, calls, faults>>

\* runMigration: search for the destination group
SearchDestGroup ==
    /\ pc = "SearchDest"
    /\ IF SearchGroup(NewGroupPath)
       THEN pc' = "ListProjects" /\ newGroup' = "dst" /\ UNCHANGED exitCode
       ELSE Exit(ExitFailure) /\ UNCHANGED newGroup
    /\ UNCHANGED <<platformVars, discoveryVars, backupVars, projectImages,
                   todo, cur, retries, polls, pauses, pollErr, calls, faults>>

\* the ProjectInfo values of a listing: the platform decides what the projects are
Materialise(kept, reg, arch) ==
    [p \in ProjIds |-> IF p \in kept THEN ProjectInfo(p, reg[p], arch[p])
                       ELSE info[p]]

\* a runMigration that goes on without any project
NoProjectsFoundNever(projects) == FALSE

\* runMigration: if len(projects) == 0
NoProjectsFound(projects) == projects = {}

\* runMigration: list the projects of the source group, stop when there is none
ListProjects ==
    /\ pc = "ListProjects"
    /\ \E st \in {0, StatusOK} :
        /\ Answers(st, {StatusOK})
        /\ IF st = 0
           THEN Exit(ExitGeneric) /\ UNCHANGED discoveryVars
           ELSE \E listed \in SUBSET ProjIds :
                  LET kept == ListFilter(listed, cfg.ProjectsList)
                  IN IF NoProjectsFound(kept)
                     THEN Exit(ExitGeneric) /\ UNCHANGED discoveryVars
                     ELSE /\ \E reg \in [kept -> BOOLEAN], arch \in [kept -> BOOLEAN] :
                                info' = Materialise(kept, reg, arch)
                          /\ allProjects' = kept
                          /\ pc' = "GetSubGroups"
                          /\ UNCHANGED exitCode
    /\ UNCHANGED <<platformVars, backupVars, projectImages, newGroup,
                   todo, cur, retries, polls, pauses, pollErr, calls>>

\* GroupMigrator.GetSubGroupsAndProjects: the projects of the descendant groups that
\* pass the filter list are merged into allProjects; runMigration never reads the error
\* it returns and merges what came with it
GetSubGroupsAndProjects ==
    /\ pc = "GetSubGroups"
    /\ \E st \in {0, StatusOK} : Answers(st, {StatusOK})
    /\ \E listed \in SUBSET (ProjIds \ allProjects) :
          LET kept == ListFilter(listed, cfg.ProjectsList)
          IN /\ \E reg \in [kept -> BOOLEAN], arch \in [kept -> BOOLEAN] :
                    info' = Materialise(kept, reg, arch)
             /\ allProjects' = allProjects \cup kept
             /\ todo' = allProjects \cup kept
    /\ pc' = "BackupLoop"
    /\ UNCHANGED <<platformVars, backupVars, projectImages, newGroup, exitCode,
                   cur, retries, polls, pauses, pollErr, calls>>

\* ----------------------------------------------------------- backup phase
\* ProjectMigrator.UnarchiveProject / ArchiveProject: the answer is an error
ArchiveError(st) == st = 0 \/ (st # StatusCreated /\ st # StatusOK)

\* backup loop of runMigration: the filter, then the unarchive call
BackupNextProject ==
    /\ pc = "BackupLoop"
    /\ \E p \in todo :
        /\ todo' = todo \ {p}
        /\ LET project == info[p]
               backup == /\ pc' = IF project.ContainerRegistryEnabled
                                  THEN "ListRepos" ELSE "BackupLoop"
                         /\ cur' = IF project.ContainerRegistryEnabled THEN p ELSE 0
           IN IF ~ShouldMigrateProject(project, cfg.ProjectsList, cfg.KeepParent)
              THEN UNCHANGED <<pc, cur, calls, faults>>
              ELSE IF project.Archived /\ ~cfg.DryRun
              THEN \E st \in {0, StatusOK} :
                     /\ Answers(st, {StatusOK})
                     /\ Issue(Call("unarchive", p, 0, <<>>, <<>>, "", st))
                     /\ IF ArchiveError(st) THEN UNCHANGED <<pc, cur>> ELSE backup
              ELSE backup /\ UNCHANGED <<calls, faults>>
    /\ UNCHANGED <<platformVars, discoveryVars, backupVars, projectImages, newGroup,
                   exitCode, retries, polls, pauses, pollErr>>

\* the backup phase deletes the registry repositories of a project after its backup:
\* the repositories BackupImages returned are handed to DeleteRegistries
CallDeleteRegistries ==
    /\ pc' = "Delete"
    /\ ri' = 1

\* BackupImages returns its lists and runMigration records the references
BackupReturn(list) ==
    /\ SetImages(cur, list)
    /\ CallDeleteRegistries

\* a BackupImages that returns after the repository it has just handled
LastRepository(list) ==
    /\ allImages' = list
    /\ images' = <<>>
    /\ ii' = 0
    /\ BackupReturn(list)

\* BackupImages: go on with the repository that follows, or return
NextRepository(list) ==
    /\ allImages' = list
    /\ images' = <<>>
    /\ ii' = 0
    /\ IF ri < Len(repositories)
       THEN pc' = "GetImages" /\ ri' = ri + 1 /\ UNCHANGED projectImages
       ELSE BackupReturn(list)

\* BackupImages: list the registry repositories of the project
BackupListRepositories ==
    /\ pc = "ListRepos"
    /\ \E n \in -1..MaxRepos :
        /\ Answers(n, 0..MaxRepos)
        /\ IF n = -1
           THEN Exit(ExitFailure) /\ UNCHANGED <<registry, repositories, ri, cur, projectImages>>
           ELSE /\ registry' = [registry EXCEPT ![cur] = n]
                /\ UNCHANGED exitCode
                /\ IF n = 0
                   THEN /\ SetImages(cur, <<>>)
                        /\ pc' = "BackupLoop"
                        /\ cur' = 0
                        /\ UNCHANGED <<repositories, ri>>
                   ELSE /\ repositories' = [k \in 1..n |-> k]
                        /\ ri' = 1
                        /\ pc' = "GetImages"
                        /\ UNCHANGED <<cur, projectImages>>
    /\ UNCHANGED <<constantVars, groups, discoveryVars, images, ii, allImages, newGroup, todo,
                   retries, polls, pauses, pollErr, calls>>

\* BackupImages: list and filter the tags of the current repository
BackupGetImages ==
    /\ pc = "GetImages"
    /\ \E st \in {0, StatusOK} :
        /\ Answers(st, {StatusOK})
        /\ LET kept == IF st = 0 THEN <<>>
                       ELSE GetImages(TagsOf(cur, repositories[ri]), cfg.TagsList)
           IN IF Len(kept) = 0
              THEN NextRepository(allImages)
              ELSE /\ images' = kept
                   /\ ii' = 1
                   /\ pc' = "Pull"
                   /\ UNCHANGED <<ri, allImages, projectImages>>
    /\ UNCHANGED <<platformVars, discoveryVars, repositories, newGroup, todo, cur,
                   exitCode, retries, polls, pauses, pollErr, calls>>

\* a BackupImages that logs a failed pull and goes on
PullAbortsNever(answer) == FALSE

\* BackupImages: a failed pull makes BackupImages return the error
PullAborts(answer) == answer = 0

\* BackupImages: pull the current image and record its reference
BackupPullImage ==
    /\ pc = "Pull"
    /\ LET imageRef == Location(cur, repositories[ri], images[ii])
           recorded == Append(allImages, imageRef)
           next == IF ii < Len(images)
                   THEN /\ ii' = ii + 1
                        /\ allImages' = recorded
                        /\ UNCHANGED <<pc, ri, images, projectImages>>
                   ELSE NextRepository(recorded)
       IN IF cfg.DryRun
          THEN next /\ UNCHANGED <<calls, faults, exitCode>>
          ELSE \E a \in DockerAnswers :
                 /\ Answers(a, {StatusOK})
                 /\ Issue(Call("pull", cur, RepoId(cur, repositories[ri]), <<>>,
                               imageRef, "", a))
                 /\ IF PullAborts(a)
                    THEN Exit(ExitFailure)
                         /\ UNCHANGED <<ri, images, ii, allImages, projectImages>>
                    ELSE next /\ UNCHANGED exitCode
    /\ UNCHANGED <<platformVars, discoveryVars, repositories, newGroup, todo, cur,
                   retries, polls, pauses, pollErr>>

\* a range loop that stays at the repository it has just handled
RangeStay(i) == i

\* DeleteRegistries: the range loop goes on to the repository after the i-th
RangeNext(i) == i + 1

\* a DeleteRegistries that deletes in a dry run as well
DeletesRegistryAlways(dryRun) == TRUE

\* DeleteRegistries: a dry run only logs the repository it would delete
DeletesRegistry(dryRun) == ~dryRun

\* DeleteRegistries: one delete call and one pause for each repository of the list, the
\* error of a delete call is logged only; a dry run has neither call nor pause
DeleteRegistries ==
    /\ pc = "Delete"
    /\ LET return == /\ pc' = "BackupLoop"
                     /\ cur' = 0
                     /\ ri' = 0
                     /\ repositories' = <<>>
                     /\ allImages' = <<>>
       IN IF ~DeletesRegistry(cfg.DryRun)
          THEN return /\ UNCHANGED <<calls, faults, pauses>>
          ELSE \E st \in {0, StatusOK} :
                 /\ Answers(st, {StatusOK})
                 /\ Issue(Call("delete", cur, RepoId(cur, repositories[ri]), <<>>,
                               <<>>, "", st))
                 /\ pauses' = pauses + 1
                 /\ IF ri < Len(repositories)
                    THEN /\ ri' = RangeNext(ri)
                         /\ UNCHANGED <<pc, cur, repositories, allImages>>
                    ELSE return
    /\ UNCHANGED <<platformVars, discoveryVars, images, ii, projectImages, newGroup,
                   todo, exitCode, retries, polls, pollErr>>

\* runMigration: after the backup loop, wait for the registries when one was backed up
BackupLoopEnd ==
    /\ pc = "BackupLoop"
    /\ todo = {}
    /\ IF DOMAIN projectImages # {}
       THEN pc' = "WaitLoop" /\ todo' = allProjects
       ELSE pc' = "Transfer" /\ UNCHANGED todo
    /\ UNCHANGED <<platformVars, discoveryVars, backupVars, projectImages, newGroup,
                   cur, exitCode, retries, polls, pauses, pollErr, calls, faults>>


\* ------------------------------------------------------- eviction waiter
\* a successful delete call was issued for every repository of project p
AllDeleted(p) ==
    \A i \in 1..registry[p] :
        \E c \in BagToSet(calls) :
            c.op = "delete" /\ c.repo = RepoId(p, i) /\ c.status # 0

\* what a poll of the repositories of p may answer
PollAnswers(p) ==
    {"error"} \cup (IF registry[p] = -1 \/ AllDeleted(p) THEN {"empty"} ELSE {})
              \cup (IF registry[p] # 0 THEN {"remaining"} ELSE {})

\* CheckIfRemainingImages: the project loop; a dry run leaves it at the first project
\* with a registry
WaitNextProject ==
    /\ pc = "WaitLoop"
    /\ \E p \in todo :
        IF ~info[p].ContainerRegistryEnabled
        THEN todo' = todo \ {p} /\ UNCHANGED <<pc, cur>>
        ELSE IF cfg.DryRun
        THEN todo' = {} /\ pc' = "Transfer" /\ UNCHANGED cur
        ELSE todo' = todo \ {p} /\ pc' = "Poll" /\ cur' = p
    /\ pollErr' = FALSE
    /\ UNCHANGED <<platformVars, discoveryVars, backupVars, projectImages, newGroup,
                   exitCode, retries, polls, pauses, calls, faults>>

\* CheckIfRemainingImages: if retries >= maxRetries
Exhausted == retries >= MaxRetries

\* a waiter that takes only a list that was returned and is empty for an eviction
EvictedWhenListed(answer) == answer = "empty"

\* CheckIfRemainingImages: if len(repositories) == 0; the error of the call is dropped
\* and the list it comes with is nil
Evicted(answer) == answer # "remaining"

\* CheckIfRemainingImages: one poll of the repository list of the current project; the
\* count of the polls is dropped when the wait for the project is over
WaitPoll ==
    /\ pc = "Poll"
    /\ \E answer \in PollAnswers(cur) :
        /\ Answers(answer, {"empty", "remaining"})
        /\ pollErr' = (answer = "error")
        /\ IF Evicted(answer)
           THEN /\ pc' = "WaitLoop" /\ cur' = 0 /\ retries' = 0 /\ polls' = 0
                /\ UNCHANGED exitCode
           ELSE /\ polls' = polls + 1
                /\ IF Exhausted
                   THEN Exit(ExitFailure) /\ UNCHANGED <<cur, retries>>
                   ELSE retries' = retries + 1 /\ UNCHANGED <<pc, cur, exitCode>>
    /\ UNCHANGED <<platformVars, discoveryVars, backupVars, projectImages, newGroup,
                   todo, pauses, calls>>

\* CheckIfRemainingImages returns nil
WaitLoopEnd ==
    /\ pc = "WaitLoop"
    /\ todo = {}
    /\ pc' = "Transfer"
    /\ pollErr' = FALSE
    /\ UNCHANGED <<platformVars, discoveryVars, backupVars, projectImages, newGroup,
                   todo, cur, exitCode, retries, polls, pauses, calls, faults>>

\* --------------------------------------------------------- transfer phase
\* a runMigration that transfers the whole group whatever the filter is
UseGroupTransferAlways == cfg.KeepParent

\* a runMigration that never transfers the group as a whole
UseGroupTransferNever == FALSE

\* runMigration: the whole group is transferred
UseGroupTransfer == cfg.KeepParent /\ Len(cfg.ProjectsList) = 0

\* a runMigration that transfers projects one by one only when a filter is given
IndividualTransferFilterOnly == Len(cfg.ProjectsList) > 0

\* runMigration: the projects are transferred one by one
IndividualTransfer == ~cfg.KeepParent \/ Len(cfg.ProjectsList) > 0

\* a TransferGroup that accepts every status the platform answers
TransferGroupErrorTransportOnly(st) == st = 0

\* GroupMigrator.TransferGroup: the answer is an error
TransferGroupError(st) == st = 0 \/ st # StatusCreated

\* ProjectMigrator.TransferProject: the answer is an error
TransferProjectError(st) == st = 0

\* runMigration with keep-parent and no filter: GroupMigrator.TransferGroup
TransferGroup ==
    /\ pc = "Transfer"
    /\ UseGroupTransfer
    /\ IF cfg.DryRun
       THEN pc' = "RestoreLoop" /\ todo' = allProjects
            /\ UNCHANGED <<exitCode, calls, faults>>
       ELSE \E st \in Statuses :
              /\ Answers(st, {StatusCreated})
              /\ Issue(Call("transferGroup", 0, 0, OldGroupFullPath, <<>>, newGroup, st))
              /\ IF TransferGroupError(st)
                 THEN Exit(ExitFailure) /\ UNCHANGED todo
                 ELSE pc' = "RestoreLoop" /\ todo' = allProjects /\ UNCHANGED exitCode
    /\ UNCHANGED <<platformVars, discoveryVars, backupVars, projectImages, newGroup,
                   cur, retries, polls, pauses, pollErr>>

\* runMigration with keep-parent and a filter: look the subgroup up under the destination
SearchSubGroup ==
    /\ pc = "Transfer"
    /\ cfg.KeepParent
    /\ ~UseGroupTransfer
    /\ \E present \in SUBSET {NewGroupFullPath} : groups' = groups \cup present
    /\ IF SearchGroup(NewGroupFullPath)'
       THEN pc' = "RestoreLoop" /\ newGroup' = "sub" /\ todo' = allProjects
       ELSE pc' = "CreateGroup" /\ UNCHANGED <<newGroup, todo>>
    /\ UNCHANGED <<constantVars, registry, discoveryVars, backupVars, projectImages,
                   cur, exitCode, retries, polls, pauses, pollErr, calls, faults>>

\* runMigration: the subgroup does not exist, gitlabClient.CreateGroup
CreateGroup ==
    /\ pc = "CreateGroup"
    /\ \E st \in {0, StatusCreated} :
        /\ Answers(st, {StatusCreated})
        /\ Issue(Call("createGroup", 0, 0, <<>>, SimplePath, newGroup, st))
        /\ IF st = 0
           THEN Exit(ExitFailure) /\ UNCHANGED <<newGroup, todo, groups>>
           ELSE /\ pc' = "RestoreLoop"
                /\ newGroup' = "sub"
                /\ todo' = allProjects
                /\ groups' = groups \cup {NewGroupFullPath}
                /\ UNCHANGED exitCode
    /\ UNCHANGED <<constantVars, registry, discoveryVars, backupVars, projectImages,
                   cur, retries, polls, pauses, pollErr>>

\* runMigration without keep-parent: no group call
SkipGroupTransfer ==
    /\ pc = "Transfer"
    /\ ~cfg.KeepParent
    /\ pc' = "RestoreLoop"
    /\ todo' = allProjects
    /\ UNCHANGED <<platformVars, discoveryVars, backupVars, projectImages, newGroup,
                   cur, exitCode, retries, polls, pauses, pollErr, calls, faults>>

\* ---------------------------------------------------------- restore phase
\* a runMigration that looks the images up under the key of another project
RestoreListOther(p) ==
    LET others == DOMAIN projectImages \ {p}
    IN IF others = {} THEN projectImages[p]
       ELSE projectImages[CHOOSE q \in others : TRUE]

\* runMigration: the list RestoreImages is given for project p
RestoreList(p) == projectImages[p]

\* runMigration: the new root path of the images
NewPath == IF cfg.KeepParent THEN NewGroupPath \o <<"/">> \o OldGroupPath
           ELSE NewGroupPath

\* RestoreImages: the reference that is tagged
RestoreSource(img) == Trim(img, "\"")

\* RestoreImages: the reference it is tagged as, and pushed
RestoreTarget(img, oldFullPath, newGroupPath) ==
    ReplaceFirst(RestoreSource(img), Trim(oldFullPath, "\""), newGroupPath)

\* runMigration: the re-archive step, or the next project
AfterRestorePc(p) == IF info[p].Archived THEN "Archive" ELSE "RestoreLoop"

\* runMigration: RestoreImages is called for a recorded, non-empty list
AfterTransferPc(p) ==
    IF p \in DOMAIN projectImages /\ Len(RestoreList(p)) > 0
    THEN "Tag" ELSE AfterRestorePc(p)

\* a runMigration that restores the images although the transfer failed
TransferAbortsNever(st) == FALSE

\* runMigration: a failed project transfer skips the rest of the iteration
TransferAborts(st) == TransferProjectError(st)

\* restore loop of runMigration: the filter, then the project transfer
RestoreNextProject ==
    /\ pc = "RestoreLoop"
    /\ \E p \in todo :
        /\ todo' = todo \ {p}
        /\ LET project == info[p]
               restore == /\ pc' = AfterTransferPc(p)
                          /\ cur' = IF AfterTransferPc(p) = "RestoreLoop" THEN 0 ELSE p
                          /\ ii' = IF AfterTransferPc(p) = "Tag" THEN 1 ELSE 0
           IN IF ~ShouldMigrateProject(project, cfg.ProjectsList, cfg.KeepParent)
              THEN UNCHANGED <<pc, cur, ii, calls, faults>>
              ELSE IF IndividualTransfer /\ ~cfg.DryRun
              THEN \E st \in Statuses :
                     /\ Answers(st, {StatusCreated})
                     /\ Issue(Call("transferProject", p, 0, <<>>, <<>>, newGroup, st))
                     /\ IF TransferAborts(st) THEN UNCHANGED <<pc, cur, ii>> ELSE restore
              ELSE restore /\ UNCHANGED <<calls, faults>>
    /\ UNCHANGED <<platformVars, discoveryVars, repositories, ri, images, allImages,
                   projectImages, newGroup, exitCode, retries, polls, pauses, pollErr>>

\* RestoreImages: go on with the image that follows, or return
NextImage ==
    IF ii < Len(RestoreList(cur))
    THEN pc' = "Tag" /\ ii' = ii + 1 /\ UNCHANGED cur
    ELSE /\ pc' = AfterRestorePc(cur)
         /\ ii' = 0
         /\ cur' = IF AfterRestorePc(cur) = "RestoreLoop" THEN 0 ELSE cur

\* a RestoreImages that pushes whatever the tag call answered
TagFailedNever(answer) == FALSE

\* RestoreImages: a failed tag call skips the push of the image
TagFailed(answer) == answer = 0

\* RestoreImages: tag the current image under its new path
RestoreTagImage ==
    /\ pc = "Tag"
    /\ LET img == RestoreList(cur)[ii]
       IN IF cfg.DryRun
          THEN NextImage /\ UNCHANGED <<calls, faults>>
          ELSE \E a \in DockerAnswers :
                 /\ Answers(a, {StatusOK})
                 /\ Issue(Call("tag", cur, 0, RestoreSource(img),
                               RestoreTarget(img, OldGroupFullPath, NewPath), "", a))
                 /\ IF TagFailed(a) THEN NextImage
                    ELSE pc' = "Push" /\ UNCHANGED <<cur, ii>>
    /\ UNCHANGED <<platformVars, discoveryVars, repositories, ri, images, allImages,
                   projectImages, newGroup, todo, exitCode, retries, polls, pauses, pollErr>>

\* RestoreImages: push the image that was tagged
RestorePushImage ==
    /\ pc = "Push"
    /\ LET img == RestoreList(cur)[ii]
       IN \E a \in DockerAnswers :
            /\ Answers(a, {StatusOK})
            /\ Issue(Call("push", cur, 0, RestoreSource(img),
                          RestoreTarget(img, OldGroupFullPath, NewPath), "", a))
            /\ NextImage
    /\ UNCHANGED <<platformVars, discoveryVars, repositories, ri, images, allImages,
                   projectImages, newGroup, todo, exitCode, retries, polls, pauses, pollErr>>

\* restore loop of runMigration: archive the project again
ArchiveProject ==
    /\ pc = "Archive"
    /\ IF cfg.DryRun
       THEN UNCHANGED <<calls, faults>>
       ELSE \E st \in {0, StatusOK} :
              /\ Answers(st, {StatusOK})
              /\ Issue(Call("archive", cur, 0, <<>>, <<>>, "", st))
    /\ pc' = "RestoreLoop"
    /\ cur' = 0
    /\ UNCHANGED <<platformVars, discoveryVars, backupVars, projectImages, newGroup,
                   todo, exitCode, retries, polls, pauses, pollErr>>

\* runMigration returns
RestoreLoopEnd ==
    /\ pc = "RestoreLoop"
    /\ todo = {}
    /\ pc' = "done"
    /\ exitCode' = 0
    /\ UNCHANGED <<platformVars, discoveryVars, backupVars, projectImages, newGroup,
                   todo, cur, retries, polls, pauses, pollErr, calls, faults>>

Next ==
    \/ SearchSourceGroup
    \/ SearchDestGroup
    \/ ListProjects
    \/ GetSubGroupsAndProjects
    \/ BackupNextProject
    \/ BackupListRepositories
    \/ BackupGetImages
    \/ BackupPullImage
    \/ DeleteRegistries
    \/ BackupLoopEnd
    \/ WaitNextProject
    \/ WaitPoll
    \/ WaitLoopEnd
    \/ TransferGroup
    \/ SearchSubGroup
    \/ CreateGroup
    \/ SkipGroupTransfer
    \/ RestoreNextProject
    \/ RestoreTagImage
    \/ RestorePushImage
    \/ ArchiveProject
    \/ RestoreLoopEnd

Spec == Init /\ [][Next]_vars


\* -------------------------------------------------------------- LoadConfig
\* a word is a string, a value a list of words: a string or a boolean is written as one
\* word, a list as its entries, the text of an environment variable as one word
True == <<"t", "r", "u", "e">>
False == <<"f", "a", "l", "s", "e">>
GitLabCom == <<"g">>

\* what a source holds for one key: form is the spelling of the key in the config file
Source(set, form, value) == [set |-> set, form |-> form, value |-> value]
NotSet == Source(FALSE, "", <<>>)

ConfigKeys == {"instance", "token", "keep-parent", "dry-run", "projects"}
Kind(key) ==
    CASE key \in {"instance", "token"} -> "string"
      [] key \in {"keep-parent", "dry-run"} -> "bool"
      [] key = "projects" -> "list"

\* viper.SetDefault
ViperDefault(key) ==
    CASE key = "instance" -> Source(TRUE, "", <<GitLabCom>>)
      [] key = "keep-parent" -> Source(TRUE, "", <<True>>)
      [] OTHER -> NotSet

\* the default value of the key's flag
FlagDefault(key) ==
    CASE Kind(key) = "string" -> << <<>> >>
      [] Kind(key) = "bool" -> <<False>>
      [] Kind(key) = "list" -> <<>>

\* strings.Split(text, ",")
RECURSIVE Split(_)
Split(text) ==
    LET k == Index(text, <<",">>)
    IN IF k = 0 THEN <<text>>
       ELSE <<SubSeq(text, 1, k - 1)>> \o Split(SubSeq(text, k + 1, Len(text)))

\* strings.TrimSpace on every entry
TrimAll(list) == [k \in 1..Len(list) |-> Trim(list[k], " ")]

\* isFlagSet: flag.Changed
isFlagSet(flag) == flag.set

\* setFlagValue: viper.Set of the flag's value when the flag was changed
setFlagValue(override, flag) ==
    IF isFlagSet(flag) THEN [set |-> TRUE, value |-> flag.value, text |-> FALSE]
    ELSE override

\* copyAliasedValues: viper.Set of the value the file holds under the snake_case key,
\* skipped when the flag was changed
copyAliasedValues(override, flag, file) ==
    IF file.set /\ file.form = "alias" /\ ~isFlagSet(flag)
    THEN [set |-> TRUE, value |-> file.value, text |-> FALSE]
    ELSE override

\* step 5 of LoadConfig: viper.Set of the environment variable's text, skipped when the
\* flag was changed
envVarOverride(override, flag, env) ==
    IF ~isFlagSet(flag) /\ env.set
    THEN [set |-> TRUE, value |-> env.value, text |-> TRUE]
    ELSE override

\* viper's lookup of a key: explicit Set, changed flag, environment, config file,
\* default, and last the default value of the flag
Find(key, override, flag, env, file) ==
    IF override.set THEN override
    ELSE IF isFlagSet(flag) THEN [set |-> TRUE, value |-> flag.value, text |-> FALSE]
    ELSE IF env.set THEN [set |-> TRUE, value |-> env.value, text |-> TRUE]
    ELSE IF file.set /\ file.form = "kebab"
         THEN [set |-> TRUE, value |-> file.value, text |-> FALSE]
    ELSE IF ViperDefault(key).set
         THEN [set |-> TRUE, value |-> ViperDefault(key).value, text |-> FALSE]
    ELSE [set |-> TRUE, value |-> FlagDefault(key), text |-> FALSE]

\* viper.Unmarshal into the field of the key: a text is parsed as a boolean, or split at
\* its commas into a list
Decode(key, found) ==
    CASE Kind(key) = "string" -> found.value[1]
      [] Kind(key) = "bool" -> found.value[1] = True
      [] Kind(key) = "list" -> IF found.text THEN Split(found.value[1]) ELSE found.value

\* a LoadConfig that lets the environment override a changed flag
LoadConfigEnvFirst(key, flag, env, file) ==
    Decode(key, Find(key, envVarOverride(NotSet, NotSet, env), flag, env, file))

\* LoadConfig, for one key: the value of the field of Config
LoadConfig(key, flag, env, file) ==
    LET step1 == setFlagValue([set |-> FALSE, value |-> <<>>, text |-> FALSE], flag)
        step3 == copyAliasedValues(step1, flag, file)
        step4 == setFlagValue(step3, flag)
        step5 == envVarOverride(step4, flag, env)
        field == Decode(key, Find(key, step5, flag, env, file))
    IN IF Kind(key) = "list" /\ env.set /\ Len(field) = 0
       THEN TrimAll(Split(env.value[1]))
       ELSE field

\* check.LoadConfig: a changed keep-parent flag with value true clears KeepParent
checkLoadConfig(key, flag, loaded) ==
    IF key = "keep-parent" /\ isFlagSet(flag) /\ flag.value[1] = True
    THEN FALSE
    ELSE loaded

\* what the sources may hold for a key
FlagValues(key) ==
    CASE Kind(key) = "string" -> {<< <<"f">> >>}
      [] Kind(key) = "bool" -> {<<True>>, <<False>>}
      [] Kind(key) = "list" -> {<<>>, << <<"a">> >>}
EnvValues(key) ==
    CASE Kind(key) = "string" -> {<< <<"e">> >>}
      [] Kind(key) = "bool" -> {<<True>>, <<False>>}
      [] Kind(key) = "list" -> {<< <<"b">> >>, << <<"b", ",", " ", "a">> >>}
FileValues(key) ==
    CASE Kind(key) = "string" -> {<< <<"c">> >>}
      [] Kind(key) = "bool" -> {<<True>>, <<False>>}
      [] Kind(key) = "list" -> {<<>>, << <<"c">> >>}

\* what the environment may hold under the MIGRAPTOR_ name of a key
PrefixedValues(key) ==
    IF Kind(key) = "string" THEN {<< <<"p">> >>} ELSE {}

\* arguments of LoadConfig: the flag, the environment variable and the config file entry
\* of one key; prefixed is the environment variable MIGRAPTOR_<KEY>, which no step of
\* LoadConfig binds or reads (BindEnv names the legacy variables, no prefix is set)
LoadConfigInputs ==
    UNION {[fn : {"LoadConfig"},
            key : {key},
            flag : {NotSet} \cup {Source(TRUE, "", v) : v \in FlagValues(key)},
            env : {NotSet} \cup {Source(TRUE, "", v) : v \in EnvValues(key)},
            prefixed : {NotSet} \cup {Source(TRUE, "", v) : v \in PrefixedValues(key)},
            file : {NotSet} \cup {Source(TRUE, form, v) :
                                     form \in {"alias", "kebab"}, v \in FileValues(key)}] :
           key \in ConfigKeys}

\* ------------------------------------------- functions applied on their own
SeqsUpTo(S, n) == UNION {[1..k -> S] : k \in 0..n}
Letters == {"a", "b"}

\* arguments of ShouldMigrateProject
ShouldMigrateInputs ==
    [fn : {"ShouldMigrateProject"},
     project : {ProjectInfo(p, reg, arch) :
                    p \in 1..3, reg \in BOOLEAN, arch \in BOOLEAN},
     filterList : SeqsUpTo({Path(1), Path(2)}, MaxListLen),
     keepParent : BOOLEAN]

\* arguments of the path substitution of RestoreImages
RestoreInputs ==
    [fn : {"RestoreImages"},
     img : SeqsUpTo(Letters, MaxLen + 1),
     oldFullPath : SeqsUpTo(Letters, MaxLen) \ {<<>>},
     newGroupPath : SeqsUpTo(Letters, MaxLen) \ {<<>>}]

\* arguments of ProjectMigrator.ListProjects: the projects the platform lists for the
\* root group, whether each has a registry, and the filter of the configuration
ListProjectsInputs ==
    [fn : {"ListProjects"},
     listed : SUBSET ProjIds,
     reg : [ProjIds -> BOOLEAN],
     filterList : SeqsUpTo({Path(1), Path(2)}, MaxListLen),
     keepParent : BOOLEAN]

\* the locals of a run that has not begun
NoRun ==
    /\ registry = [p \in ProjIds |-> -1]
    /\ exitCode = -1
    /\ info = [p \in ProjIds |-> NoProject(p)]
    /\ allProjects = {}
    /\ projectImages = [p \in {} |-> <<>>]
    /\ newGroup = "none"
    /\ todo = {}
    /\ cur = 0
    /\ repositories = <<>>
    /\ ri = 0
    /\ images = <<>>
    /\ ii = 0
    /\ allImages = <<>>
    /\ retries = 0
    /\ polls = 0
    /\ pauses = 0
    /\ pollErr = FALSE
    /\ calls = EmptyBag
    /\ faults = 0

\* no run of runMigration is in progress
Idle ==
    /\ cfg = [DryRun |-> TRUE, KeepParent |-> FALSE, ProjectsList |-> <<>>,
              TagsList |-> <<>>]
    /\ groups = {}
    /\ pc = "idle"
    /\ NoRun

\* tag names a repository may list
TagNames == {<<"v", "1">>, <<"v", "2">>}
\* GetImages: the listed tags and the tag filter
GetImagesInputs ==
    [fn : {"GetImages"}, tags : SeqsUpTo(TagNames, MaxListLen),
     tagFilter : SeqsUpTo(TagNames, MaxListLen)]

FunctionInit ==
    /\ Idle
    /\ CleanIdle
    /\ input \in ShouldMigrateInputs \cup RestoreInputs \cup LoadConfigInputs
                  \cup ListProjectsInputs \cup GetImagesInputs
    /\ output = <<>>

\* ShouldMigrateProject(project, filterList, keepParent)
ApplyShouldMigrateProject ==
    /\ input.fn = "ShouldMigrateProject"
    /\ output = <<>>
    /\ output' = <<ShouldMigrateProject(input.project, input.filterList,
                                        input.keepParent)>>
    /\ UNCHANGED <<pipelineVars, cleanVars, input>>

\* RestoreImages: the new reference of img, old root path to new root path
ApplyRestoreTarget ==
    /\ input.fn = "RestoreImages"
    /\ output = <<>>
    /\ output' = <<RestoreTarget(input.img, input.oldFullPath, input.newGroupPath)>>
    /\ UNCHANGED <<pipelineVars, cleanVars, input>>

\* RestoreImages: the substitution applied to its own result, new root path to old
ApplyRestoreTargetBack ==
    /\ input.fn = "RestoreImages"
    /\ Len(output) = 1
    /\ output' = Append(output, RestoreTarget(output[1], input.newGroupPath,
                                              input.oldFullPath))
    /\ UNCHANGED <<pipelineVars, cleanVars, input>>

\* config.LoadConfig, for the key of the input
ApplyLoadConfig ==
    /\ input.fn = "LoadConfig"
    /\ output = <<>>
    /\ output' = <<LoadConfig(input.key, input.flag, input.env, input.file)>>
    /\ UNCHANGED <<pipelineVars, cleanVars, input>>

\* check.LoadConfig: what it makes of the configuration config.LoadConfig returned
ApplyCheckLoadConfig ==
    /\ input.fn = "LoadConfig"
    /\ Len(output) = 1
    /\ output' = Append(output, checkLoadConfig(input.key, input.flag, output[1]))
    /\ UNCHANGED <<pipelineVars, cleanVars, input>>

\* ProjectMigrator.ListProjects: the projects it returns
ApplyListProjects ==
    /\ input.fn = "ListProjects"
    /\ output = <<>>
    /\ output' = <<ListFilter(input.listed, input.filterList)>>
    /\ UNCHANGED <<pipelineVars, cleanVars, input>>

\* ImageMigrator.GetImages: the images it returns for the listed tags
ApplyGetImages ==
    /\ input.fn = "GetImages"
    /\ output = <<>>
    /\ output' = <<GetImages(input.tags, input.tagFilter)>>
    /\ UNCHANGED <<pipelineVars, cleanVars, input>>

FunctionNext ==
    \/ ApplyGetImages
    \/ ApplyListProjects
    \/ ApplyLoadConfig
    \/ ApplyCheckLoadConfig
    \/ ApplyShouldMigrateProject
    \/ ApplyRestoreTarget
    \/ ApplyRestoreTargetBack

FunctionSpec == FunctionInit /\ [][FunctionNext]_vars


\* ------------------------------------------------------- the image selector
\* a node of the selector's tree; an image node stands for its ImageItem as well
TreeNode(type, p, r, name) ==
    [Type |-> type, ProjectID |-> p, RegistryID |-> r, Name |-> name]
ProjectNode(p) == TreeNode("project", p, 0, <<>>)
RegistryNode(p, r) == TreeNode("registry", p, r, <<>>)
ImageItem(p, r, name) == TreeNode("image", p, r, name)

\* the clean command's world: project p holds one repository, the p-th
CleanRepositories(p) == <<p>>

\* GetAllImagesFromProjects: the images of project p
ImagesOfProject(p) ==
    LET i == CleanRepositories(p)[1]
    IN [k \in 1..Len(TagsOf(p, i)) |-> ImageItem(p, RepoId(p, i), TagsOf(p, i)[k])]
\* the lists GetAllImagesFromProjects may return
CollectedLists == {<<>>, ImagesOfProject(1)}

RECURSIVE Distinct(_)
Distinct(s) ==
    IF s = <<>> THEN <<>>
    ELSE LET rest == Distinct(SubSeq(s, 1, Len(s) - 1))
         IN IF Contains(rest, s[Len(s)]) THEN rest ELSE Append(rest, s[Len(s)])
RECURSIVE Flatten(_)
Flatten(ss) == IF ss = <<>> THEN <<>> ELSE Head(ss) \o Flatten(Tail(ss))

\* buildTree: the project nodes, and the registry nodes of a project, in the order
\* in which the image list mentions them first
TreeProjects(imgs) == Distinct([k \in 1..Len(imgs) |-> imgs[k].ProjectID])
TreeRegistries(imgs, p) ==
    LET Of(x) == x.ProjectID = p
        mine == SelectSeq(imgs, Of)
    IN Distinct([k \in 1..Len(mine) |-> mine[k].RegistryID])
GroupNodes(imgs) ==
    {ProjectNode(imgs[k].ProjectID) : k \in 1..Len(imgs)}
        \cup {RegistryNode(imgs[k].ProjectID, imgs[k].RegistryID) : k \in 1..Len(imgs)}

\* the image nodes that are children of a registry node
Children(m, p, r) ==
    LET Under(x) == x.ProjectID = p /\ x.RegistryID = r /\ x \in m.present
    IN SelectSeq(m.built, Under)

\* the image nodes of the tree, in the order a traversal meets them
TreeImages(m) ==
    LET ps == TreeProjects(m.built)
    IN Flatten([i \in 1..Len(ps) |->
           LET rs == TreeRegistries(m.built, ps[i])
           IN Flatten([j \in 1..Len(rs) |-> Children(m, ps[i], rs[j])])])

\* getFlatNodes: the visible nodes
getFlatNodes(m) ==
    LET ps == TreeProjects(m.built)
    IN Flatten([i \in 1..Len(ps) |->
           LET rs == TreeRegistries(m.built, ps[i])
           IN <<ProjectNode(ps[i])>> \o
              (IF ProjectNode(ps[i]) \in m.expanded
               THEN Flatten([j \in 1..Len(rs) |->
                        <<RegistryNode(ps[i], rs[j])>> \o
                        (IF RegistryNode(ps[i], rs[j]) \in m.expanded
                         THEN Children(m, ps[i], rs[j]) ELSE <<>>)])
               ELSE <<>>)])

NewImageSelectorModel(imgs, dryRun) ==
    [images |-> imgs, built |-> imgs,
     present |-> {imgs[k] : k \in 1..Len(imgs)},
     selected |-> {}, expanded |-> GroupNodes(imgs), cursor |-> 0,
     dryRun |-> dryRun, showConfirm |-> FALSE, showQuitConfirm |-> FALSE,
     deleting |-> FALSE, deletedCount |-> 0, failedCount |-> 0,
     finalSelected |-> <<>>]

getSelectedImages(m) ==
    LET Chosen(x) == x \in m.selected IN SelectSeq(TreeImages(m), Chosen)
getSelectedCount(m) == Len(getSelectedImages(m))
GetSelectedImages(m) ==
    IF Len(m.finalSelected) > 0 THEN m.finalSelected ELSE getSelectedImages(m)

moveCursor(m, delta) ==
    LET n == Len(getFlatNodes(m))
        c == m.cursor + delta
    IN IF n = 0 THEN m
       ELSE [m EXCEPT !.cursor = IF c < 0 THEN 0 ELSE IF c >= n THEN n - 1 ELSE c]

\* node.Selected: of a project or registry node it is never assigned
NodeSelected(m, node) == node.Type = "image" /\ node \in m.selected

\* the image nodes below a project or registry node
Below(m, node) ==
    {x \in m.present : /\ x.ProjectID = node.ProjectID
                       /\ node.Type = "registry" => x.RegistryID = node.RegistryID}

toggleNodeChildren(m, node, selected) ==
    [m EXCEPT !.selected = IF selected THEN @ \cup Below(m, node)
                           ELSE @ \ Below(m, node)]

toggleSelection(m) ==
    LET flatNodes == getFlatNodes(m)
        node == flatNodes[m.cursor + 1]
    IN IF m.cursor >= Len(flatNodes) THEN m
       ELSE IF node.Type = "image"
       THEN [m EXCEPT !.selected = IF node \in @ THEN @ \ {node} ELSE @ \cup {node}]
       ELSE toggleNodeChildren(m, node, ~NodeSelected(m, node))

toggleExpand(m) ==
    LET flatNodes == getFlatNodes(m)
        node == flatNodes[m.cursor + 1]
    IN IF m.cursor >= Len(flatNodes) \/ node.Type = "image" THEN m
       ELSE [m EXCEPT !.expanded = IF node \in @ THEN @ \ {node} ELSE @ \cup {node}]

toggleExpandAll(m) ==
    LET ps == TreeProjects(m.built)
        expand == ~\E i \in 1..Len(ps) : ProjectNode(ps[i]) \in m.expanded
    IN [m EXCEPT !.expanded = IF expand THEN GroupNodes(m.built) ELSE {}]

updateConfirm(m, key) ==
    IF key = "y" THEN [m EXCEPT !.showConfirm = FALSE, !.deleting = TRUE]
    ELSE IF key = "n" THEN [m EXCEPT !.showConfirm = FALSE]
    ELSE m

updateQuitConfirm(m, key) ==
    IF key = "y"
    THEN [m EXCEPT !.showQuitConfirm = FALSE, !.finalSelected = getSelectedImages(m)]
    ELSE IF key = "n" THEN [m EXCEPT !.showQuitConfirm = FALSE]
    ELSE m

\* the keys Update tells apart: k, j, Y, N, esc and ctrl+c are handled as up, down, y,
\* n, n and q are; every other key leaves the model as it is
Keys == {"up", "down", "space", "enter", "tab", "d", "q", "y", "n"}

\* Update for a key message: the model it leaves
Update(m, key) ==
    IF m.showQuitConfirm THEN updateQuitConfirm(m, key)
    ELSE IF m.showConfirm THEN updateConfirm(m, key)
    ELSE IF m.deleting THEN m
    ELSE CASE key = "q" -> [m EXCEPT !.showQuitConfirm = TRUE]
           [] key = "up" -> moveCursor(m, -1)
           [] key = "down" -> moveCursor(m, 1)
           [] key = "space" -> toggleSelection(m)
           [] key = "enter" -> toggleExpand(m)
           [] key = "tab" -> toggleExpandAll(m)
           [] key = "d" -> IF getSelectedCount(m) > 0
                           THEN [m EXCEPT !.showConfirm = TRUE] ELSE m
           [] OTHER -> m

\* an updateConfirm that starts the deletion whatever the key is
StartsDeleteOnAnyKey(m, key) == ~m.showQuitConfirm /\ m.showConfirm

\* Update for a key message: the command it returns
StartsDelete(m, key) == ~m.showQuitConfirm /\ m.showConfirm /\ key = "y"
StartsQuit(m, key) == m.showQuitConfirm /\ key = "y"

removeDeletedImages(m, deleted) ==
    LET gone == {deleted[k] : k \in 1..Len(deleted)}
        left == [m EXCEPT !.present = @ \ gone, !.selected = @ \ gone]
    IN [left EXCEPT !.images = TreeImages(left)]

\* a RestoreSelections that leaves finalSelected as the last quit stored it
RestoreSelectionsKeepsFinal(m, selected) ==
    [m EXCEPT !.selected = {x \in m.present : Contains(selected, x)}]

RestoreSelections(m, selected) ==
    [m EXCEPT !.selected = {x \in m.present : Contains(selected, x)},
              !.finalSelected = <<>>]

\* what no step of the clean command changes
cleanFixed == <<cfg, groups, registry, info, projectImages, newGroup, retries, polls,
                pauses, pollErr,
                functionVars>>

\* the selector's program runs and Update receives a key message
KeyMsg ==
    /\ pc = "Selector"
    /\ \E key \in Keys :
        /\ selectorModel' = Update(selectorModel, key)
        /\ inflight' =
              [quit |-> inflight.quit \/ StartsQuit(selectorModel, key),
               deleteSelected |->
                   IF StartsDelete(selectorModel, key)
                   THEN [NoDelete EXCEPT !.state = "started"]
                   ELSE inflight.deleteSelected]
    /\ UNCHANGED <<cleanFixed, pc, exitCode, allProjects, allImages, todo, cur,
                   repositories, ri, images, ii, calls, faults, selectedImages,
                   response, failedCount>>

\* the state of the deleteSelected command once its work is done: its message waits for
\* Update, or is dropped when the program that started the command has ended
Finished(d) == IF d.orphan THEN "none" ELSE "complete"

\* the selector's model once the command is done: nothing reads it again when
\* cleanImages has left the selector for good
Left(m) == IF pc \in {"Selector", "Summary"} THEN m ELSE NoSelector

\* deleteSelected, the command: it collects the selected images of the tree
DeleteSelectedStart ==
    /\ pc \notin {"exit", "done"}
    /\ inflight.deleteSelected.state = "started"
    /\ LET d == inflight.deleteSelected
           list == getSelectedImages(selectorModel)
       IN IF Len(list) = 0
          THEN /\ inflight' = [inflight EXCEPT !.deleteSelected =
                                  [d EXCEPT !.state = Finished(d)]]
               /\ selectorModel' = Left(removeDeletedImages(selectorModel, list))
          ELSE /\ inflight' = [inflight EXCEPT !.deleteSelected =
                                  [d EXCEPT !.state = "running", !.next = 1,
                                            !.selectedImages = list]]
               /\ UNCHANGED selectorModel
    /\ UNCHANGED <<cleanFixed, pc, exitCode, allProjects, allImages, todo, cur,
                   repositories, ri, images, ii, calls, faults, selectedImages,
                   response, failedCount>>

\* a deleteSelected without its dry-run guard
SelectorDeletesAlways(m) == TRUE

\* deleteSelected calls the API unless the selector was built for a dry run
SelectorDeletes(m) == ~m.dryRun

\* deleteSelected, the command: the delete-tag call for its next image; after the last
\* one removeDeletedImages and the deletion-complete message
DeleteSelectedCall ==
    /\ pc \notin {"exit", "done"}
    /\ inflight.deleteSelected.state = "running"
    /\ LET d == inflight.deleteSelected
           img == d.selectedImages[d.next]
           last == d.next = Len(d.selectedImages)
           after(failed) ==
               /\ inflight' = [inflight EXCEPT !.deleteSelected =
                     [d EXCEPT !.next = @ + 1,
                               !.deletedCount = IF failed THEN @ ELSE @ + 1,
                               !.failedCount = IF failed THEN @ + 1 ELSE @,
                               !.state = IF last THEN Finished(d) ELSE "running"]]
               /\ selectorModel' =
                     IF last
                     THEN Left(removeDeletedImages(selectorModel, d.selectedImages))
                     ELSE selectorModel
       IN IF ~SelectorDeletes(selectorModel)
          THEN after(FALSE) /\ UNCHANGED <<calls, faults>>
          ELSE \E st \in {0, StatusOK} :
                 /\ Answers(st, {StatusOK})
                 /\ Issue(Call("deleteTag", img.ProjectID, img.RegistryID, <<>>,
                               img.Name, "deleteSelected", st))
                 /\ after(st = 0)
    /\ UNCHANGED <<cleanFixed, pc, exitCode, allProjects, allImages, todo, cur,
                   repositories, ri, images, ii, selectedImages, response,
                   failedCount>>

\* Update receives the deletion-complete message: handleDeletionComplete
DeletionCompleteMsg ==
    /\ pc = "Selector"
    /\ inflight.deleteSelected.state = "complete"
    /\ selectorModel' =
          [selectorModel EXCEPT
              !.deletedCount = inflight.deleteSelected.deletedCount,
              !.failedCount = inflight.deleteSelected.failedCount,
              !.deleting = FALSE]
    /\ inflight' = [inflight EXCEPT !.deleteSelected = NoDelete]
    /\ UNCHANGED <<cleanFixed, pc, exitCode, allProjects, allImages, todo, cur,
                   repositories, ri, images, ii, calls, faults, selectedImages,
                   response, failedCount>>

\* Update receives the quit message: the program ends and cleanImages reads the selection
QuitMsg ==
    /\ pc = "Selector"
    /\ inflight.quit
    /\ selectedImages' = GetSelectedImages(selectorModel)
    /\ inflight' =
          [quit |-> FALSE,
           deleteSelected |-> IF inflight.deleteSelected.state \in {"started", "running"}
                              THEN [inflight.deleteSelected EXCEPT !.orphan = TRUE]
                              ELSE NoDelete]
    /\ IF Len(GetSelectedImages(selectorModel)) = 0
       THEN Exit(0)
       ELSE pc' = "Summary" /\ UNCHANGED exitCode
    /\ UNCHANGED <<cleanFixed, allProjects, allImages, todo, cur, repositories, ri,
                   images, ii, calls, faults, selectorModel, response, failedCount>>

\* ------------------------------------------------------ the clean command
CleanConfigs == [DryRun : BOOLEAN, BackupImages : BOOLEAN]

\* fmt.Scanln(&response): an empty line leaves the variable as it was
Lines == {"", "y", "Y", "n"}
Scanln(old, line) == IF line = "" THEN old ELSE line
\* an answer that counts as yes unless it is n
YesUnlessNo(answer) == answer # "n"

Yes(answer) == answer = "y" \/ answer = "Y"

\* the names of the selected images of project p, in the order of the selection
RECURSIVE imagesByProject(_, _)
imagesByProject(selected, p) ==
    IF selected = <<>> THEN <<>>
    ELSE (IF Head(selected).ProjectID = p THEN <<Head(selected).Name>> ELSE <<>>)
             \o imagesByProject(Tail(selected), p)

CleanInit ==
    /\ cfg \in CleanConfigs
    /\ groups \in SUBSET {OldGroupName}
    /\ pc = "CleanStart"
    /\ NoRun
    /\ CleanIdle
    /\ input = <<>>
    /\ output = <<>>

\* cleanImages up to the selector: the group, its projects and their images
CollectImages ==
    /\ pc = "CleanStart"
    /\ IF ~SearchGroup(OldGroupName)
       THEN Exit(ExitGroupNotFound)
            /\ UNCHANGED <<allProjects, allImages, selectorModel>>
       ELSE \E projects \in {{}, ProjIds} :
              IF projects = {}
              THEN Exit(ExitGeneric)
                   /\ UNCHANGED <<allProjects, allImages, selectorModel>>
              ELSE \E imgs \in CollectedLists :
                     /\ allProjects' = projects
                     /\ allImages' = imgs
                     /\ IF Len(imgs) = 0
                        THEN pc' = "done" /\ exitCode' = 0 /\ UNCHANGED selectorModel
                        ELSE /\ pc' = "Selector"
                             /\ selectorModel' = NewImageSelectorModel(imgs, cfg.DryRun)
                             /\ UNCHANGED exitCode
    /\ UNCHANGED <<cleanFixed, todo, cur, repositories, ri, images, ii, calls, faults,
                   inflight, selectedImages, response, failedCount>>

\* the summary of the selection: back to the selector with the selection restored
SummaryBack ==
    /\ pc = "Summary"
    /\ pc' = "Selector"
    /\ selectorModel' = RestoreSelections(selectorModel, selectedImages)
    /\ selectedImages' = <<>>
    /\ UNCHANGED <<cleanFixed, exitCode, allProjects, allImages, todo, cur,
                   repositories, ri, images, ii, calls, faults, inflight, response,
                   failedCount>>

\* the summary of the selection: the user goes on and the selector is left for good
SummaryProceed ==
    /\ pc = "Summary"
    /\ pc' = "Confirm"
    /\ selectorModel' = IF inflight.deleteSelected.state = "none"
                        THEN NoSelector ELSE selectorModel
    /\ UNCHANGED <<cleanFixed, exitCode, allProjects, allImages, todo, cur,
                   repositories, ri, images, ii, calls, faults, inflight,
                   selectedImages, response, failedCount>>

\* "Delete n images ? (y/n)"
ConfirmDelete ==
    /\ pc = "Confirm"
    /\ \E line \in Lines :
        /\ response' = Scanln(response, line)
        /\ IF Yes(Scanln(response, line))
           THEN pc' = "BackupPrompt" /\ UNCHANGED exitCode
           ELSE Exit(ExitGeneric)
    /\ UNCHANGED <<cleanFixed, allProjects, allImages, todo, cur, repositories, ri,
                   images, ii, calls, faults, selectorModel, inflight, selectedImages,
                   failedCount>>

\* a clean command that backs up whenever backup-images is set
WantsBackupFromConfig(answer) == cfg.BackupImages

\* whether the backup runs: the answer to the second Scanln decides
WantsBackup(answer) == Yes(answer)

\* the backup message or question, and the second Scanln
BackupPrompt ==
    /\ pc = "BackupPrompt"
    /\ \E line \in Lines :
        /\ response' = Scanln(response, line)
        /\ IF WantsBackup(Scanln(response, line))
           THEN pc' = "CleanBackupLoop" /\ todo' = allProjects /\ UNCHANGED ii
           ELSE pc' = "CleanDelete" /\ ii' = 1 /\ UNCHANGED todo
    /\ UNCHANGED <<cleanFixed, exitCode, allProjects, allImages, cur, repositories, ri,
                   images, calls, faults, selectorModel, inflight, selectedImages,
                   failedCount>>

\* the backup loop: the next project, skipped when none of its images is selected
CleanBackupNextProject ==
    /\ pc = "CleanBackupLoop"
    /\ todo # {}
    /\ LET p == CHOOSE q \in todo : \A o \in todo : q <= o
       IN /\ todo' = todo \ {p}
          /\ IF Len(imagesByProject(selectedImages, p)) = 0
             THEN UNCHANGED <<pc, cur>>
             ELSE pc' = "CleanListRepos" /\ cur' = p
    /\ UNCHANGED <<cleanFixed, exitCode, allProjects, allImages, repositories, ri,
                   images, ii, calls, faults, selectorModel, inflight, selectedImages,
                   response, failedCount>>

\* the backup loop is over: the deletion loop begins
CleanBackupDone ==
    /\ pc = "CleanBackupLoop"
    /\ todo = {}
    /\ pc' = "CleanDelete"
    /\ ii' = 1
    /\ UNCHANGED <<cleanFixed, exitCode, allProjects, allImages, todo, cur,
                   repositories, ri, images, calls, faults, selectorModel, inflight,
                   selectedImages, response, failedCount>>

\* BackupImages for the clean command: list the repositories of the project
CleanListRepositories ==
    /\ pc = "CleanListRepos"
    /\ \E st \in {0, StatusOK} :
        /\ Answers(st, {StatusOK})
        /\ IF st = 0
           THEN Exit(ExitGeneric) /\ UNCHANGED <<repositories, ri>>
           ELSE /\ pc' = "CleanGetImages"
                /\ repositories' = CleanRepositories(cur)
                /\ ri' = 1
                /\ UNCHANGED exitCode
    /\ UNCHANGED <<cleanFixed, allProjects, allImages, todo, cur, images, ii, calls,
                   selectorModel, inflight, selectedImages, response, failedCount>>

\* BackupImages: the repository after the current one, or back to the loop of projects
CleanNextRepository ==
    IF ri < Len(repositories)
    THEN pc' = "CleanGetImages" /\ ri' = ri + 1 /\ UNCHANGED <<cur, repositories>>
    ELSE pc' = "CleanBackupLoop" /\ ri' = 0 /\ cur' = 0 /\ repositories' = <<>>

\* BackupImages for the clean command: the tags of the repository, filtered by the names
\* of the project's selected images
CleanGetImages ==
    /\ pc = "CleanGetImages"
    /\ \E st \in {0, StatusOK} :
        /\ Answers(st, {StatusOK})
        /\ LET kept == GetImages(TagsOf(cur, repositories[ri]),
                                 imagesByProject(selectedImages, cur))
           IN IF st = 0 \/ Len(kept) = 0
              THEN CleanNextRepository /\ UNCHANGED <<images, ii>>
              ELSE /\ pc' = "CleanPull"
                   /\ images' = kept
                   /\ ii' = 1
                   /\ UNCHANGED <<cur, repositories, ri>>
    /\ UNCHANGED <<cleanFixed, exitCode, allProjects, allImages, todo, calls,
                   selectorModel, inflight, selectedImages, response, failedCount>>

\* BackupImages for the clean command: pull the current image
CleanPullImage ==
    /\ pc = "CleanPull"
    /\ LET imageRef == Location(cur, repositories[ri], images[ii])
           next == IF ii < Len(images)
                   THEN ii' = ii + 1 /\ UNCHANGED <<pc, cur, repositories, ri, images>>
                   ELSE CleanNextRepository /\ ii' = 0 /\ images' = <<>>
       IN IF cfg.DryRun
          THEN next /\ UNCHANGED <<calls, faults, exitCode>>
          ELSE \E a \in DockerAnswers :
                 /\ Answers(a, {StatusOK})
                 /\ Issue(Call("pull", cur, RepoId(cur, repositories[ri]), <<>>,
                               imageRef, "", a))
                 /\ IF PullAborts(a)
                    THEN Exit(ExitGeneric)
                         /\ UNCHANGED <<cur, repositories, ri, images, ii>>
                    ELSE next /\ UNCHANGED exitCode
    /\ UNCHANGED <<cleanFixed, allProjects, allImages, todo, selectorModel, inflight,
                   selectedImages, response, failedCount>>

\* a deletion loop without its dry-run guard
LoopDeletesAlways == TRUE

\* the deletion loop of cleanImages calls the API unless the run is a dry run
LoopDeletes == ~cfg.DryRun

\* the deletion loop: the delete-tag call for the current selected image
CleanDeleteImage ==
    /\ pc = "CleanDelete"
    /\ ii <= Len(selectedImages)
    /\ ii' = ii + 1
    /\ LET img == selectedImages[ii]
       IN IF ~LoopDeletes
          THEN UNCHANGED <<calls, faults, failedCount>>
          ELSE \E st \in {0, StatusOK} :
                 /\ Answers(st, {StatusOK})
                 /\ Issue(Call("deleteTag", img.ProjectID, img.RegistryID, <<>>,
                               img.Name, "cleanImages", st))
                 /\ failedCount' = IF st = 0 THEN failedCount + 1 ELSE failedCount
    /\ UNCHANGED <<cleanFixed, pc, exitCode, allProjects, allImages, todo, cur,
                   repositories, ri, images, selectorModel, inflight, selectedImages,
                   response>>

\* the deletion loop is over: exit code 1 when a deletion failed
CleanEnd ==
    /\ pc = "CleanDelete"
    /\ ii > Len(selectedImages)
    /\ IF failedCount > 0
       THEN Exit(ExitGeneric)
       ELSE pc' = "done" /\ exitCode' = 0
    /\ UNCHANGED <<cleanFixed, allProjects, allImages, todo, cur, repositories, ri,
                   images, ii, calls, faults, selectorModel, inflight, selectedImages,
                   response, failedCount>>

CleanNext ==
    \/ CollectImages
    \/ KeyMsg
    \/ DeleteSelectedStart
    \/ DeleteSelectedCall
    \/ DeletionCompleteMsg
    \/ QuitMsg
    \/ SummaryBack
    \/ SummaryProceed
    \/ ConfirmDelete
    \/ BackupPrompt
    \/ CleanBackupNextProject
    \/ CleanBackupDone
    \/ CleanListRepositories
    \/ CleanGetImages
    \/ CleanPullImage
    \/ CleanDeleteImage
    \/ CleanEnd

CleanSpec == CleanInit /\ [][CleanNext]_vars


\* ------------------------------------------------------ reading the calls
Issued == BagToSet(calls)
CallsOf(op, p) == {c \in Issued : c.op = op /\ c.proj = p}
Count(S) == BagCardinality([c \in S |-> CopiesIn(c, calls)])
Failed(c) == c.status = 0
Qualifying == {p \in allProjects :
                 ShouldMigrateProject(info[p], cfg.ProjectsList, cfg.KeepParent)}
\* the references the tag filter retains in the i-th repository of project p
Retained(p, i) ==
    {Location(p, i, GetImages(TagsOf(p, i), cfg.TagsList)[k]) :
        k \in 1..Len(GetImages(TagsOf(p, i), cfg.TagsList))}
Pulled(ref) == \E c \in Issued : c.op = "pull" /\ c.ref = ref /\ ~Failed(c)

\* ------------------------------------------------------------------ claims

\* C1: a delete-repository call is issued for a repository only after every tag of
\* it that the tag filter retains has been pulled successfully; a repository whose
\* tag listing failed is never deleted.
C1_DeleteOnlyAfterBackup ==
    \A c \in Issued :
        c.op = "delete" =>
            \A i \in 1..MaxRepos :
                c.repo = RepoId(c.proj, i) => \A ref \in Retained(c.proj, i) : Pulled(ref)

\* C2: once an image pull has failed in the backup phase the run has ended with exit
\* code 99, and no further call is issued to any collaborator.
PullFailed == \E c \in Issued : c.op = "pull" /\ Failed(c)
C2_PullFailureIsFatal ==
    /\ [](PullFailed => pc = "exit" /\ exitCode = ExitFailure)
    /\ [][PullFailed => calls' = calls]_vars
C2_Witness ==
    /\ PullFailed
    /\ exitCode = ExitFailure
    /\ \E c \in Issued : c.op = "delete"

\* C3: a dry run issues no mutating call at all.
C3_DryRunIsPure == cfg.DryRun => calls = EmptyBag

\* C4: when the run reaches its end, every project the pipeline unarchived has
\* received an archive call.
Unarchived(p) == \E c \in CallsOf("unarchive", p) : ~Failed(c)
C4_UnarchivedIsArchivedAgain ==
    pc = "done" => \A p \in allProjects : Unarchived(p) => CallsOf("archive", p) # {}

\* C5: a project whose unarchive call failed receives no pull, project-transfer, tag,
\* push or archive call.
UnarchiveFailed(p) == \E c \in CallsOf("unarchive", p) : Failed(c)
C5_UnarchiveFailureSkipsProject ==
    \A p \in allProjects :
        UnarchiveFailed(p) =>
            \A op \in {"pull", "transferProject", "tag", "push", "archive"} :
                CallsOf(op, p) = {}

\* C6: the run never ends at the eviction waiter because the retry budget of a
\* project is exhausted.
C6_EvictionTimeoutContinues == ~(pc = "exit" /\ retries >= MaxRetries)


\* C7: every tag and push call of project p has as its source a reference of the
\* list recorded for p in the backup phase, which was pulled; it is a reference of
\* no other project.
C7_RestoreOnlyBackedUp ==
    \A c \in Issued :
        c.op \in {"tag", "push"} =>
            /\ c.proj \in DOMAIN projectImages
            /\ Contains(projectImages[c.proj], c.src)
            /\ Pulled(c.src)
            /\ \A q \in DOMAIN projectImages \ {c.proj} :
                   ~Contains(projectImages[q], c.src)
C7_Witness ==
    \E p, q \in allProjects :
        /\ p # q
        /\ CallsOf("push", p) # {}
        /\ CallsOf("tag", q) # {}

\* C8: a project whose transfer failed gets no tag and no push call; the run does
\* not exit, and at its end every other qualifying project has received its one
\* transfer call and, when that succeeded, a tag call for each of its references.
TransferFailed(p) == \E c \in CallsOf("transferProject", p) : Failed(c)
C8_TransferFailureIsLocal ==
    /\ \A p \in allProjects :
          TransferFailed(p) => CallsOf("tag", p) = {} /\ CallsOf("push", p) = {}
    /\ (\E p \in allProjects : TransferFailed(p)) =>
          /\ pc # "exit"
          /\ pc = "done" =>
                \A q \in Qualifying :
                    /\ Count(CallsOf("transferProject", q)) = 1
                    /\ (~TransferFailed(q) /\ q \in DOMAIN projectImages) =>
                          \A k \in 1..Len(projectImages[q]) :
                              \E c \in CallsOf("tag", q) : c.src = projectImages[q][k]
C8_Witness ==
    /\ pc = "done"
    /\ \E p, q \in allProjects :
          /\ p # q
          /\ TransferFailed(p)
          /\ p \in DOMAIN projectImages
          /\ Len(projectImages[p]) > 0
          /\ CallsOf("push", q) # {}

\* C9: with keep-parent and a project filter no group-transfer call is issued; the
\* subgroup, named after the last segment of the source group's path, is created
\* under the destination only when the lookup did not find it; project-transfer
\* calls go to projects of the filter only and target the subgroup, and a run that is
\* not a dry run has, at its end, issued one for each discovered project of the filter.
KeepWithFilter == cfg.KeepParent /\ Len(cfg.ProjectsList) > 0
Creations == Count(CallsOf("createGroup", 0))
C9_State ==
    KeepWithFilter =>
        /\ CallsOf("transferGroup", 0) = {}
        /\ Creations <= 1
        /\ \A c \in CallsOf("createGroup", 0) :
              c.ref = LastPart(OldGroupFullPath) /\ c.dst = "dst"
        /\ \A c \in Issued :
              c.op = "transferProject" =>
                  Contains(cfg.ProjectsList, Path(c.proj)) /\ c.dst = "sub"
        /\ (pc = "done" /\ ~cfg.DryRun) =>
              \A p \in allProjects :
                  Contains(cfg.ProjectsList, Path(p)) =>
                      Count(CallsOf("transferProject", p)) = 1
C10_FlattenTransfersEveryProject ==
    ~cfg.KeepParent =>
        /\ CallsOf("transferGroup", 0) = {}
        /\ \A c \in Issued : c.op = "transferProject" => c.dst = "dst"
        /\ \A p \in allProjects : Count(CallsOf("transferProject", p)) <= 1
        /\ (pc = "done" /\ ~cfg.DryRun) =>
              \A p \in Qualifying : Count(CallsOf("transferProject", p)) = 1
        /\ \A c \in Issued :
              c.op \in {"pull", "delete", "tag", "push"} =>
                  info[c.proj].ContainerRegistryEnabled
        /\ \A p \in DOMAIN projectImages : info[p].ContainerRegistryEnabled
C10_Witness ==
    /\ pc = "done"
    /\ ~cfg.KeepParent
    /\ \E p, q \in allProjects :
          /\ info[p].ContainerRegistryEnabled
          /\ ~info[q].ContainerRegistryEnabled
          /\ CallsOf("push", p) # {}
          /\ \E c \in CallsOf("transferProject", p) : ~Failed(c)
          /\ \E c \in CallsOf("transferProject", q) : ~Failed(c)

\* C11: with keep-parent and no project filter no project-transfer call is issued, and
\* at most one group-transfer call, of the source group into the destination group; a
\* run that is not a dry run and gets past the transfer phase has issued exactly one.
WholeGroup == cfg.KeepParent /\ Len(cfg.ProjectsList) = 0
PastTransfer == pc \in {"RestoreLoop", "Tag", "Push", "Archive", "done"}
GroupTransfers == Count(CallsOf("transferGroup", 0))
C11_OneGroupTransfer ==
    WholeGroup =>
        /\ \A c \in Issued : c.op # "transferProject" /\ c.op # "createGroup"
        /\ GroupTransfers <= 1
        /\ \A c \in CallsOf("transferGroup", 0) :
              c.src = OldGroupFullPath /\ c.dst = "dst"
        /\ (PastTransfer /\ ~cfg.DryRun) => GroupTransfers = 1
C11_Witness ==
    /\ pc = "done"
    /\ WholeGroup
    /\ GroupTransfers = 1
    /\ Cardinality(allProjects) = 2
    /\ \E c \in Issued : c.op = "push"

\* C12: a group-transfer call answered with anything but status 201 ends the run with
\* exit code 99 and no call follows it; one answered with 201 does not end the run.
GroupTransferRefused ==
    \E c \in CallsOf("transferGroup", 0) : c.status # StatusCreated
GroupTransferAccepted ==
    \E c \in CallsOf("transferGroup", 0) : c.status = StatusCreated
C12_State ==
    /\ GroupTransferRefused => pc = "exit" /\ exitCode = ExitFailure
    /\ GroupTransferAccepted => pc # "exit"
C12_GroupTransferNeeds201 ==
    /\ []C12_State
    /\ [][GroupTransferRefused => calls' = calls]_vars
C12_Witness ==
    /\ \E c \in CallsOf("transferGroup", 0) : c.status = StatusOK
    /\ exitCode = ExitFailure
    /\ \E c \in Issued : c.op = "pull" /\ info[c.proj].Archived

\* C13: ShouldMigrateProject returns true for an empty filter list; for a filter list
\* that is not empty it returns true exactly when the project's path is an element
\* of the list, or the project has no registry and keep-parent is set.  Applying it
\* changes nothing but the value returned.
C13_State ==
    (input.fn = "ShouldMigrateProject" /\ output # <<>>) =>
        LET p == input.project
            F == input.filterList
        IN output[1] = IF F = <<>> THEN TRUE
                       ELSE \/ \E k \in 1..Len(F) : F[k] = p.Path
                            \/ ~p.ContainerRegistryEnabled /\ input.keepParent
C13_ShouldMigrateProject ==
    /\ []C13_State
    /\ [][(input.fn = "ShouldMigrateProject" /\ output' # output)
            => UNCHANGED <<pipelineVars, cleanVars, input>>]_vars
C13_Witness ==
    /\ input.fn = "ShouldMigrateProject"
    /\ output = <<TRUE>>
    /\ Len(input.filterList) = MaxListLen
    /\ ~Contains(input.filterList, input.project.Path)
    /\ ~input.project.ContainerRegistryEnabled
    /\ input.keepParent

\* C14: substituting the old root path by the new one in a reference that holds the
\* old root path, then the new one by the old one in the result, gives the reference
\* back.
C14_RoundTrip ==
    (/\ input.fn = "RestoreImages"
     /\ Len(output) = 2
     /\ Index(input.img, input.oldFullPath) > 0) => output[2] = input.img

\* C15: RestoreImages issues a tag call for every reference of its list, in the order
\* of the list and whatever the earlier calls answered; a push call is issued for a
\* reference exactly when its tag call succeeded; no tag or push failure ends the
\* loop or the run.
TagsFor(p, k) ==
    {c \in CallsOf("tag", p) : c.src = RestoreSource(projectImages[p][k])}
PushesFor(p, k) ==
    {c \in CallsOf("push", p) : c.src = RestoreSource(projectImages[p][k])}
RestoreCalled ==
    {p \in Qualifying \cap DOMAIN projectImages :
        Len(projectImages[p]) > 0 /\ ~TransferFailed(p)}
C15_RestoreGoesThroughTheList ==
    ~cfg.DryRun =>
        /\ pc \in {"Tag", "Push"} =>
              /\ \A k \in 1..(ii - 1) : Count(TagsFor(cur, k)) = 1
              /\ \A k \in (ii + 1)..Len(projectImages[cur]) : TagsFor(cur, k) = {}
              /\ Count(TagsFor(cur, ii)) = IF pc = "Tag" THEN 0 ELSE 1
              /\ PushesFor(cur, ii) = {}
        /\ \A p \in DOMAIN projectImages :
              \A k \in 1..Len(projectImages[p]) :
                  (pc = "Push" /\ p = cur /\ k = ii) \/
                  Count(PushesFor(p, k)) =
                      IF \E t \in TagsFor(p, k) : ~Failed(t) THEN 1 ELSE 0
        /\ (\E c \in Issued : c.op \in {"tag", "push"}) => pc # "exit"
        /\ pc = "done" =>
              \A p \in RestoreCalled :
                  \A k \in 1..Len(projectImages[p]) : Count(TagsFor(p, k)) = 1
C15_Witness ==
    /\ pc = "done"
    /\ \E p \in RestoreCalled :
          /\ Len(projectImages[p]) >= 2
          /\ \E t \in TagsFor(p, 1) : Failed(t)
          /\ PushesFor(p, 1) = {}
          /\ PushesFor(p, 2) # {}

\* C16: when the source group or the destination group is not found, the run ends at
\* that search, with an exit code that is not 0 and without any mutating call issued.
GroupMissing == OldGroupName \notin groups \/ NewGroupPath \notin groups
C17_ExitCodes ==
    pc \in {"exit", "done"} =>
        /\ exitCode = ExitGroupNotFound <=> OldGroupName \notin groups
        /\ exitCode = ExitGeneric => allProjects = {}
        /\ pc = "done" => exitCode = 0
        /\ exitCode = ExitFailure => faults > 0 \/ NewGroupPath \notin groups

\* C18: in the backup phase only a failed pull ends the run: a run that ends while a
\* project is backed up has a failed pull call.
C18_OnlyPullEndsTheBackup ==
    (pc = "exit" /\ cur # 0 /\ retries < MaxRetries) => PullFailed

\* the reference BackupImages pulls for a selected image
ImageRef(img) ==
    Location(img.ProjectID, CleanRepositories(img.ProjectID)[1], img.Name)
\* the delete-tag calls of the deletion loop of cleanImages
LoopDeletions == {c \in Issued : c.op = "deleteTag" /\ c.dst = "cleanImages"}

\* C19: with backup-images enabled the deletion loop of the clean command issues a
\* delete-tag call only when every selected image has been pulled successfully, and
\* issues none once a pull has failed.
C19_BackupBeforeDelete ==
    cfg.BackupImages =>
        /\ LoopDeletions # {} =>
              \A k \in 1..Len(selectedImages) : Pulled(ImageRef(selectedImages[k]))
        /\ PullFailed => LoopDeletions = {}

\* C20: a dry run of the clean command issues no delete-tag call and no pull, neither
\* from the backup and the deletion loop of cleanImages nor from the selector's delete
\* action.
C20_DryRunTouchesNothing ==
    cfg.DryRun => \A c \in Issued : c.op # "deleteTag" /\ c.op # "pull"
C20_Witness ==
    /\ cfg.DryRun
    /\ pc = "CleanDelete"
    /\ Len(selectedImages) > 0
    /\ ii > Len(selectedImages)
    /\ Yes(response)
    /\ inflight.deleteSelected.deletedCount > 0

\* cleanImages is past its delete confirmation
Confirmed ==
    pc \in {"BackupPrompt", "CleanBackupLoop", "CleanListRepos", "CleanGetImages",
            "CleanPull", "CleanDelete"}

\* C21: the deletion loop of the clean command issues a delete-tag call only past the
\* delete confirmation, which is passed only with the answer y or Y and a selection that
\* is not empty; any other answer ends the command at once with exit code 1, an empty
\* selection with exit code 0, and in both cases the loop has issued no delete-tag call.
C21_LoopDeletesOnlyAfterYes ==
    /\ [](~Confirmed /\ pc \notin {"exit", "done"} => LoopDeletions = {})
    /\ [][/\ Count(LoopDeletions)' > Count(LoopDeletions) => Confirmed
          /\ (Confirmed' /\ ~Confirmed) =>
                 /\ pc = "Confirm"
                 /\ response' \in {"y", "Y"}
                 /\ Len(selectedImages) > 0
          /\ (pc = "Confirm" /\ pc' # "Confirm" /\ response' \notin {"y", "Y"}) =>
                 /\ pc' = "exit"
                 /\ exitCode' = ExitGeneric
                 /\ LoopDeletions' = {}
          /\ (pc = "Selector" /\ pc' # "Selector" /\ Len(selectedImages') = 0) =>
                 /\ pc' = "exit"
                 /\ exitCode' = 0
                 /\ LoopDeletions' = {}]_vars
C21_Witness ==
    /\ pc = "done"
    /\ ~cfg.DryRun
    /\ Count(LoopDeletions) = Len(selectedImages)
    /\ Len(selectedImages) > 0

\* the value of a key in the source of highest priority that sets it
Highest(key, flag, env, file) ==
    Decode(key,
           IF flag.set THEN [set |-> TRUE, value |-> flag.value, text |-> FALSE]
           ELSE IF env.set THEN [set |-> TRUE, value |-> env.value, text |-> TRUE]
           ELSE IF file.set THEN [set |-> TRUE, value |-> file.value, text |-> FALSE]
           ELSE IF ViperDefault(key).set
                THEN [set |-> TRUE, value |-> ViperDefault(key).value, text |-> FALSE]
           ELSE [set |-> TRUE, value |-> FlagDefault(key), text |-> FALSE])

\* C22: for every key LoadConfig returns the value of the source of highest priority
\* that sets the key: the flag, then the environment variable, then the config file,
\* then the default.
C22_HighestSourceWins ==
    (input.fn = "LoadConfig" /\ Len(output) >= 1) =>
        output[1] = Highest(input.key, input.flag, input.env, input.file)

\* C23: with no environment variable and no config file entry for keep-parent, the
\* KeepParent that check.LoadConfig returns is false exactly when the flag was passed
\* with the value true; without the flag, or with the flag passed as false, it is true.
C23_KeepParentFlag ==
    (/\ input.fn = "LoadConfig"
     /\ input.key = "keep-parent"
     /\ ~input.env.set
     /\ ~input.file.set
     /\ Len(output) = 2) =>
        (output[2] = FALSE <=> (input.flag.set /\ input.flag.value[1] = True))

\* C24: the eviction waiter issues at most 30 polls of the repository list for a project,
\* the poll after which it reports exhaustion included.
C24_AtMostThirtyPolls == polls <= MaxRetries

\* the transfer phase is complete: the group transfer, or the transfer of every
\* qualifying project, has been issued
TransfersIssued ==
    IF UseGroupTransfer THEN CallsOf("transferGroup", 0) # {}
    ELSE \A p \in Qualifying : CallsOf("transferProject", p) # {}

\* C25: a tag or push call is issued only when the transfer phase is complete.
C25_RestoreAfterAllTransfers ==
    (\E c \in Issued : c.op \in {"tag", "push"}) => TransfersIssued

\* the backup phase is over for every qualifying project with a registry: every tag its
\* repositories retain has been pulled, and the eviction wait has returned
BackupComplete ==
    /\ pc \in {"Transfer", "SearchSub", "CreateGroup", "RestoreLoop", "Tag", "Push",
                "Archive", "done", "exit"}
    /\ \A p \in Qualifying :
          info[p].ContainerRegistryEnabled =>
              \A i \in 1..registry[p] : \A ref \in Retained(p, i) : Pulled(ref)

\* C26: a group-transfer, group-creation or project-transfer call is issued only when
\* the backup phase is over for all qualifying projects and the eviction wait has
\* returned.
C26_TransferAfterBackup ==
    (\E c \in Issued : c.op \in {"transferGroup", "createGroup", "transferProject"})
        => BackupComplete

\* the delete calls issued for the i-th repository of project p
Deletions(p, i) == {c \in Issued : c.op = "delete" /\ c.repo = RepoId(p, i)}

\* C27: no mutating call is issued twice: a project receives at most one unarchive, one
\* project-transfer and one archive call, the root group at most one group-transfer
\* call, a repository at most one delete call; a step of the eviction poll loop issues
\* no mutating call.
C27_State ==
    /\ \A p \in ProjIds :
          /\ Count(CallsOf("unarchive", p)) <= 1
          /\ Count(CallsOf("transferProject", p)) <= 1
          /\ Count(CallsOf("archive", p)) <= 1
          /\ \A i \in 1..MaxRepos : Count(Deletions(p, i)) <= 1
    /\ GroupTransfers <= 1
C27_NoMutationIsRetried ==
    /\ []C27_State
    /\ [][pc = "Poll" => calls' = calls]_vars
C27_Witness ==
    /\ pc = "done"
    /\ \E p \in allProjects :
          /\ Count(CallsOf("unarchive", p)) = 1
          /\ Count(CallsOf("transferProject", p)) = 1
          /\ Count(CallsOf("archive", p)) = 1
          /\ registry[p] = MaxRepos
          /\ \A i \in 1..MaxRepos : Count(Deletions(p, i)) = 1

\* C28: the projects of the root group that ListProjects materialises are the listed
\* projects for which ShouldMigrateProject is true, a project without registry outside
\* the filter of a run that keeps the hierarchy included.
C28_MaterialisedAreTheQualifying ==
    (input.fn = "ListProjects" /\ Len(output) = 1) =>
        output[1] = {p \in input.listed :
                        ShouldMigrateProject(ProjectInfo(p, input.reg[p], FALSE),
                                             input.filterList, input.keepParent)}

\* C29: in a run that is not a dry run DeleteRegistries issues exactly one delete call for
\* each repository of its list, goes on with the repository that follows whatever the
\* call answered, and returns without error; in a dry run it issues no delete call and
\* takes no pause.
DeleteCalls(bag, p, i) ==
    CopiesIn(Call("delete", p, RepoId(p, i), <<>>, <<>>, "", 0), bag)
    + CopiesIn(Call("delete", p, RepoId(p, i), <<>>, <<>>, "", StatusOK), bag)
\* repositories of project p that DeleteRegistries has handled
Handled(p) ==
    IF pc = "Delete" /\ cur = p THEN ri - 1
    ELSE IF p \in DOMAIN projectImages /\ registry[p] > 0
            /\ ~(cur = p /\ pc \in {"ListRepos", "GetImages", "Pull"})
         THEN registry[p]
         ELSE 0
C29_State ==
    /\ \A p \in ProjIds : \A i \in 1..MaxRepos :
          DeleteCalls(calls, p, i) = IF ~cfg.DryRun /\ i <= Handled(p) THEN 1 ELSE 0
    /\ cfg.DryRun => pauses = 0
C29_Step ==
    pc = "Delete" =>
        /\ exitCode' = exitCode
        /\ IF cfg.DryRun
           THEN pc' = "BackupLoop" /\ calls' = calls /\ pauses' = pauses
           ELSE /\ DeleteCalls(calls', cur, repositories[ri])
                      = DeleteCalls(calls, cur, repositories[ri]) + 1
                /\ BagCardinality(calls') = BagCardinality(calls) + 1
                /\ pauses' = pauses + 1
                /\ IF ri < Len(repositories)
                   THEN pc' = "Delete" /\ ri' = ri + 1 /\ cur' = cur
                   ELSE pc' = "BackupLoop"
C29_DeleteRegistries ==
    /\ []C29_State
    /\ [][C29_Step]_vars
C29_Witness ==
    /\ pc = "BackupLoop"
    /\ exitCode = -1
    /\ pauses = MaxRepos
    /\ \E p \in ProjIds :
          /\ CopiesIn(Call("delete", p, RepoId(p, 1), <<>>, <<>>, "", 0), calls) = 1
          /\ \A i \in 1..MaxRepos : DeleteCalls(calls, p, i) = 1

\* C30: BackupImages returns no error and an empty list of references for a project that
\* has no repository, and a repository that keeps no tag after filtering does not stop
\* the backup: the repositories that follow it are listed and their retained tags pulled.
NoTagKept == GetImages(TagsOf(cur, repositories[ri]), cfg.TagsList) = <<>>
C30_Step ==
    /\ (pc = "ListRepos" /\ faults' = faults /\ registry'[cur] = 0) =>
          /\ exitCode' = exitCode
          /\ pc' = "BackupLoop"
          /\ cur \in DOMAIN projectImages' /\ projectImages'[cur] = <<>>
    /\ (pc = "GetImages" /\ faults' = faults /\ NoTagKept) =>
          /\ exitCode' = exitCode
          /\ IF ri < Len(repositories)
             THEN pc' = "GetImages" /\ ri' = ri + 1 /\ cur' = cur
                  /\ repositories' = repositories
             ELSE pc' = "Delete" /\ projectImages'[cur] = allImages
C30_State ==
    (~cfg.DryRun /\ faults = 0) =>
        \A p \in DOMAIN projectImages : \A i \in 1..registry[p] :
            \A ref \in Retained(p, i) : Pulled(ref)
C30_BackupGoesOn ==
    /\ []C30_State
    /\ [][C30_Step]_vars
C30_Witness ==
    /\ ~cfg.DryRun /\ faults = 0
    /\ \E p, q \in DOMAIN projectImages :
          /\ registry[q] = 0 /\ projectImages[q] = <<>>
          /\ registry[p] = MaxRepos
          /\ \E i \in 1..(MaxRepos - 1) :
                /\ Retained(p, i) = {}
                /\ Retained(p, i + 1) # {}
                /\ \A ref \in Retained(p, i + 1) : Pulled(ref)

\* C31: the images GetImages retains are the listed tags whose name is an element of the
\* allow-list, in listing order, and all the listed tags when the allow-list is empty.
Allowed(tagFilter, t) == Len(tagFilter) = 0 \/ \E k \in 1..Len(tagFilter) : tagFilter[k] = t
C31_RetainedAreTheAllowed ==
    (input.fn = "GetImages" /\ Len(output) = 1) =>
        LET kept == output[1]
            at == {k \in 1..Len(input.tags) : Allowed(input.tagFilter, input.tags[k])}
        IN /\ Len(kept) = Cardinality(at)
           /\ \A n \in 1..Len(kept) :
                 \E k \in at : /\ kept[n] = input.tags[k]
                               /\ Cardinality({j \in at : j < k}) = n - 1
C31_Witness ==
    /\ input.fn = "GetImages" /\ Len(output) = 1
    /\ Len(input.tagFilter) = 1
    /\ Len(input.tags) = 2 /\ input.tags[1] # input.tags[2]
    /\ output[1] = <<input.tagFilter[1]>>

\* C32: the environment variable with the MIGRAPTOR_ prefix is a configuration source: for
\* a key of string value that has it set, and no flag, LoadConfig returns its value.
C32_PrefixedEnvIsASource ==
    (/\ input.fn = "LoadConfig"
     /\ Kind(input.key) = "string"
     /\ input.prefixed.set
     /\ ~input.flag.set
     /\ Len(output) >= 1) =>
        output[1] = input.prefixed.value[1]

\* the selector is shown and handles keys in its normal mode
Browsing ==
    /\ pc = "Selector"
    /\ selectorModel # NoSelector
    /\ ~selectorModel.showQuitConfirm /\ ~selectorModel.showConfirm
    /\ ~selectorModel.deleting
\* the cursor is on a project or registry node
OnGroupNode ==
    /\ selectorModel.cursor < Len(getFlatNodes(selectorModel))
    /\ getFlatNodes(selectorModel)[selectorModel.cursor + 1].Type \in {"project", "registry"}

\* C33: space pressed twice on the same project or registry node, with no other input in
\* between, restores the selection that held before the first press.
C33_SpaceTwiceRestores ==
    (Browsing /\ OnGroupNode) =>
        Update(Update(selectorModel, "space"), "space").selected = selectorModel.selected

\* C34: in the eviction waiter a list-repositories call that fails is handled as an empty
\* list is: the wait for the project is over at once, the project is not polled again,
\* and no error is propagated.
C34_State ==
    pollErr => /\ pc = "WaitLoop" /\ cur = 0 /\ retries = 0 /\ polls = 0
               /\ exitCode = -1
C34_Step ==
    /\ pc = "Poll" =>
          /\ pollErr' => (pc' = "WaitLoop" /\ exitCode' = exitCode /\ calls' = calls
                            /\ todo' = todo /\ cur \notin todo')
          /\ (pc' = "WaitLoop" /\ ~pollErr') =>
                (exitCode' = exitCode /\ calls' = calls /\ todo' = todo
                 /\ cur' = 0 /\ retries' = 0 /\ polls' = 0)
    /\ pc = "WaitLoop" => \A p \in todo' : p \in todo
C34_PollErrorIsEviction ==
    /\ []C34_State
    /\ [][C34_Step]_vars
C34_Witness ==
    /\ pollErr
    /\ pc = "WaitLoop"
    /\ todo # {}
    /\ \E p \in DOMAIN projectImages : registry[p] > 0 /\ p \notin todo

\* C35: the run exits with code 1 exactly when the filtered project listing of the root
\* group itself is empty; the check comes before the descendant groups are discovered,
\* so nothing of them is known when the run ends, and an error of that discovery is
\* ignored.
C35_Step ==
    /\ pc = "ListProjects" =>
          /\ (pc' = "exit" /\ exitCode' = 1) <=> allProjects' = {}
          /\ allProjects' # {} => (pc' = "GetSubGroups" /\ exitCode' = exitCode)
    /\ exitCode' = 1 /\ exitCode # 1 => pc = "ListProjects"
    /\ pc = "GetSubGroups" =>
          /\ pc' = "BackupLoop" /\ exitCode' = exitCode
          /\ \A p \in allProjects : p \in allProjects'
C36_RestoreOnlyAfterCreated ==
    IndividualTransfer =>
        \A c \in Issued :
            c.op \in {"tag", "push"} =>
                \E t \in CallsOf("transferProject", c.proj) : t.status = StatusCreated

\* the selector's program runs on a model
Shown == pc = "Selector" /\ selectorModel # NoSelector

\* C37: in the image selector a deletion is started only by y pressed while the delete
\* confirmation is shown, that confirmation opens only on d with at least one image
\* selected, and while deleting is set no key changes the selection or the cursor or
\* starts another deletion: that lasts until the deletion-complete message arrives.
C37_State ==
    Shown =>
        \A key \in Keys :
            LET m == selectorModel
                after == Update(m, key)
            IN /\ StartsDelete(m, key) => (key = "y" /\ m.showConfirm /\ ~m.deleting)
               /\ (after.showConfirm /\ ~m.showConfirm) =>
                     (key = "d" /\ getSelectedCount(m) > 0)
               /\ m.deleting => /\ after.selected = m.selected
                                /\ after.cursor = m.cursor
                                /\ ~StartsDelete(m, key)
                                /\ after.deleting
C37_Step ==
    /\ (inflight'.deleteSelected.state = "started"
            /\ inflight.deleteSelected.state # "started") =>
          /\ Shown /\ selectorModel.showConfirm /\ ~selectorModel.deleting
          /\ inflight.deleteSelected.state = "none"
          /\ selectorModel'.deleting /\ ~selectorModel'.showConfirm
    /\ (Shown /\ selectorModel.deleting /\ pc' = "Selector" /\ ~selectorModel'.deleting) =>
          /\ inflight.deleteSelected.state = "complete"
          /\ inflight'.deleteSelected.state = "none"
C37_DeletionIsConfirmed ==
    /\ []C37_State
    /\ [][C37_Step]_vars
C37_Witness ==
    /\ Shown
    /\ selectorModel.deleting
    /\ inflight.deleteSelected.state = "running"
    /\ Cardinality(selectorModel.selected) = 2

\* the delete-tag call of the selector for image x succeeded
TagDeleted(x) ==
    \E c \in Issued : /\ c.op = "deleteTag" /\ c.dst = "deleteSelected"
                      /\ c.proj = x.ProjectID /\ c.repo = x.RegistryID
                      /\ c.ref = x.Name /\ ~Failed(c)

\* C38: when a deletion of the selector is complete, an image is absent from the tree and
\* from the image list exactly when its delete-tag call succeeded: the images whose
\* deletion failed, and every image in a dry run, are still listed.
C38_AbsentIffDeleted ==
    (Shown /\ inflight.deleteSelected.state = "complete") =>
        \A k \in 1..Len(selectorModel.built) :
            LET x == selectorModel.built[k]
            IN (x \notin selectorModel.present /\ ~Contains(selectorModel.images, x))
                   <=> TagDeleted(x)

\* C39: going back from the summary to the selector keeps the selection: after
\* RestoreSelections(S), GetSelectedImages returns the images of the tree whose key occurs
\* in S, in the order of the tree, every other image is unselected, and the selection the
\* previous quit stored is not returned any more.
C39_Step ==
    (pc = "Summary" /\ pc' = "Selector") =>
        LET S == selectedImages
            m == selectorModel'
            tree == TreeImages(m)
            kept == {k \in 1..Len(tree) : \E j \in 1..Len(S) : S[j] = tree[k]}
            got == GetSelectedImages(m)
        IN /\ Len(got) = Cardinality(kept)
           /\ \A n \in 1..Len(got) :
                 \E k \in kept : /\ got[n] = tree[k]
                                 /\ Cardinality({j \in kept : j < k}) = n - 1
           /\ \A k \in 1..Len(tree) : tree[k] \in m.selected <=> k \in kept
           /\ m.finalSelected = <<>>
C39_RestoreSelections == [][C39_Step]_vars
C39_Witness ==
    /\ Shown
    /\ inflight.deleteSelected.orphan
    /\ selectorModel.finalSelected = <<>>
    /\ selectorModel.selected # {}

\* C40: in the image selector the cursor is never negative and, whenever a node is
\* visible, lies below the number of the visible nodes, whatever keys were received.
C40_CursorInRange ==
    Shown =>
        /\ selectorModel.cursor >= 0
        /\ Len(getFlatNodes(selectorModel)) > 0 =>
              selectorModel.cursor < Len(getFlatNodes(selectorModel))

====
